---- MODULE Spec2Model ----
(***************************************************************************)
(* A model of the gophersat CDCL engine (solver/solver.go): the Solver     *)
(* struct, the search driver, the enumeration and optimisation drivers and *)
(* AppendClause.  Variables are 1..nbVars (the source counts from 0), a    *)
(* literal is a non-zero integer +v / -v, a binding is a signed decision   *)
(* level as in the source (0: free, +l: true at level l, -l: false).       *)
(***************************************************************************)
EXTENDS Integers, Sequences, FiniteSets, TLC

\* ------------------------------------------------------------------ bounds
MaxVars == 3
MaxClauses == 2
MaxCalls == 2
MaxOptCalls == 1
MaxEnumCalls == 1
MaxEnumClauses == 2
MaxOptClauses == 2
MaxWeight == 2
MaxChanClauses == 2

\* --------------------------------------------------------------- literals
Var(l) == IF l < 0 THEN -l ELSE l
IsPositive(l) == l > 0
Negation(l) == -l
abs(val) == IF val < 0 THEN -val ELSE val
lvlToSignedLvl(l, lvl) == IF IsPositive(l) THEN lvl ELSE -lvl
\* v.SignedLit(neg): the negative literal of v when neg, else the positive one.
SignedLit(v, neg) == IF neg THEN -v ELSE v

Min(S) == CHOOSE x \in S : \A y \in S : x <= y
Max(S) == CHOOSE x \in S : \A y \in S : x >= y

RECURSIVE SeqSum(_)
SeqSum(q) == IF q = <<>> THEN 0 ELSE Head(q) + SeqSum(Tail(q))

RECURSIVE SetToSeq(_)
SetToSeq(S) == IF S = {} THEN <<>> ELSE <<Min(S)>> \o SetToSeq(S \ {Min(S)})

\* ------------------------------------------------------------ constraints
\* One shape for clauses, cardinality and pseudo-Boolean constraints:
\* the weights of the true literals must sum to at least card.
Ones(n) == [i \in 1..n |-> 1]
NewClause(lits) == [lits |-> lits, weights |-> Ones(Len(lits)), card |-> 1, learned |-> FALSE, lock |-> 0]
NewCardClause(lits, card) == [lits |-> lits, weights |-> Ones(Len(lits)), card |-> card, learned |-> FALSE, lock |-> 0]
\* A weight that is absent counts 1.
NewPBClause(lits, weights, card) ==
    [lits |-> lits,
     weights |-> [i \in 1..Len(lits) |-> IF i <= Len(weights) THEN weights[i] ELSE 1],
     card |-> card, learned |-> FALSE, lock |-> 0]
NewLearnedClause(lits) == [lits |-> lits, weights |-> Ones(Len(lits)), card |-> 1, learned |-> TRUE, lock |-> 0]

\* removeLit(i): the literal and its weight leave the constraint, the last one
\* taking their place.
removeLit(c, i) ==
    LET n == Len(c.lits)
        mv(q) == [j \in 1..(n - 1) |-> IF j = i THEN q[n] ELSE q[j]]
    IN [c EXCEPT !.lits = mv(c.lits), !.weights = mv(c.weights)]
updateCardinality(c, add) == [c EXCEPT !.card = c.card + add]

\* A total assignment a (a function from variables to BOOLEAN) and a constraint.
LitTrue(a, l) == a[Var(l)] = IsPositive(l)
SatisfiedBy(c, a) ==
    SeqSum([i \in 1..Len(c.lits) |-> IF LitTrue(a, c.lits[i]) THEN c.weights[i] ELSE 0]) >= c.card
Assignments(n) == [1..n -> BOOLEAN]
ModelsOf(n, cs) == {a \in Assignments(n) : \A c \in cs : SatisfiedBy(c, a)}

\* ------------------------------------------------------- bindings (Model)
\* litStatus: Sat when the literal is true under the bindings, Unsat when false,
\* Indet when its variable is free.
litStatus(model, l) ==
    IF model[Var(l)] = 0 THEN "Indet"
    ELSE IF (model[Var(l)] > 0) = IsPositive(l) THEN "Sat" ELSE "Unsat"

\* Sum of the weights of the literals of c that are not false / that are true.
PossibleMax(model, c) ==
    SeqSum([i \in 1..Len(c.lits) |-> IF litStatus(model, c.lits[i]) # "Unsat" THEN c.weights[i] ELSE 0])
TrueSum(model, c) ==
    SeqSum([i \in 1..Len(c.lits) |-> IF litStatus(model, c.lits[i]) = "Sat" THEN c.weights[i] ELSE 0])
Conflicting(model, c) == PossibleMax(model, c) < c.card
\* The free literals c forces: without one of them c could not be satisfied.
ForcedIdx(model, c) ==
    {i \in 1..Len(c.lits) : /\ litStatus(model, c.lits[i]) = "Indet"
                            /\ PossibleMax(model, c) - c.weights[i] < c.card}

\* lock / unlock: the count of assignments a constraint is the reason of.
lock(c) == [c EXCEPT !.lock = c.lock + 1]
unlock(c) == [c EXCEPT !.lock = c.lock - 1]

\* --------------------------------------------------------- variable queue
\* The order heap: cnt[v] entries of variable v, and idx[v], whether the
\* position map holds a position for v (what contains() answers).  Which entry
\* is the minimum depends on the activities; removeMin takes the entry of any
\* variable the caller names.
newQueue(n) == [cnt |-> [v \in 1..n |-> 1], idx |-> [v \in 1..n |-> TRUE]]
empty(q) == \A v \in DOMAIN q.cnt : q.cnt[v] = 0
contains(q, v) == q.idx[v]
insert(q, v) == [cnt |-> [q.cnt EXCEPT ![v] = @ + 1], idx |-> [q.idx EXCEPT ![v] = TRUE]]
removeMin(q, v) == [cnt |-> [q.cnt EXCEPT ![v] = @ - 1], idx |-> [q.idx EXCEPT ![v] = FALSE]]
build(q, ints) ==
    [cnt |-> [v \in DOMAIN q.cnt |-> Cardinality({i \in 1..Len(ints) : ints[i] = v})],
     idx |-> [v \in DOMAIN q.cnt |-> \E i \in 1..Len(ints) : ints[i] = v]]

\* ------------------------------------------------------------- the solver
\* An undo that leaves the polarities of the objective variables as they are.
resetOptimPolaritySkipped(st) == st

\* resetOptimPolarity: the preferred sign of an objective literal's variable
\* is the one that makes the literal false.
resetOptimPolarity(st) ==
    [st EXCEPT !.polarity =
        [v \in 1..st.nbVars |->
            IF \E i \in 1..Len(st.minLits) : Var(st.minLits[i]) = v
            THEN LET i == Max({j \in 1..Len(st.minLits) : Var(st.minLits[j]) = v})
                 IN ~IsPositive(st.minLits[i])
            ELSE st.polarity[v]]]

\* An undo that forgets the reasons: bindings and trail are undone, the reason
\* pointers and the locks stay.
cleanupBindingsKeepsReasons(st, lvl) ==
    LET above == {i \in 1..Len(st.trail) : abs(st.model[Var(st.trail[i])]) > lvl}
    IN IF above = {} THEN resetOptimPolarity(st)
       ELSE LET i0 == Min(above)
                U == {Var(st.trail[j]) : j \in i0..Len(st.trail)}
            IN resetOptimPolarity(
                [st EXCEPT
                  !.model = [v \in 1..st.nbVars |-> IF v \in U THEN 0 ELSE st.model[v]],
                  !.varQueue = [cnt |-> [v \in 1..st.nbVars |-> IF v \in U THEN st.varQueue.cnt[v] + 1 ELSE st.varQueue.cnt[v]],
                                idx |-> [v \in 1..st.nbVars |-> (v \in U) \/ st.varQueue.idx[v]]],
                  !.trail = SubSeq(st.trail, 1, i0 - 1)])

\* cleanupBindings(lvl): from the first trail literal bound above lvl on, every
\* trail literal is unbound: binding 0, reason unlocked and cleared, polarity
\* the literal's sign, and the variable, when the queue does not contain it,
\* inserted in the loop and once more from toInsert.
cleanupBindings(st, lvl) ==
    LET above == {i \in 1..Len(st.trail) : abs(st.model[Var(st.trail[i])]) > lvl}
    IN IF above = {} THEN resetOptimPolarity(st)
       ELSE
        LET i0 == Min(above)
            js == i0..Len(st.trail)
            U == {Var(st.trail[j]) : j \in js}
            last(v) == st.trail[Max({j \in js : Var(st.trail[j]) = v})]
            toInsert == {v \in U : ~contains(st.varQueue, v)}
            nUnlock(k) == Cardinality({v \in U : st.reason[v] = k})
        IN resetOptimPolarity(
            [st EXCEPT
              !.model = [v \in 1..st.nbVars |-> IF v \in U THEN 0 ELSE st.model[v]],
              !.reason = [v \in 1..st.nbVars |-> IF v \in U THEN 0 ELSE st.reason[v]],
              !.db = [k \in 1..Len(st.db) |-> [st.db[k] EXCEPT !.lock = @ - nUnlock(k)]],
              !.polarity = [v \in 1..st.nbVars |-> IF v \in U THEN IsPositive(last(v)) ELSE st.polarity[v]],
              !.varQueue = [cnt |-> [v \in 1..st.nbVars |-> IF v \in toInsert THEN st.varQueue.cnt[v] + 2 ELSE st.varQueue.cnt[v]],
                            idx |-> [v \in 1..st.nbVars |-> (v \in toInsert) \/ st.varQueue.idx[v]]],
              !.trail = SubSeq(st.trail, 1, i0 - 1)])

\* rebuildOrderHeap: ints starts as nbVars entries of the first variable
\* (make([]int, nbVars) is nbVars zeros) and the free variables are appended.
rebuildOrderHeap(st) ==
    LET free == SetToSeq({v \in 1..st.nbVars : st.model[v] = 0})
        ints == [i \in 1..st.nbVars |-> 1] \o free
    IN [st EXCEPT !.varQueue = build(st.varQueue, ints)]

\* appendClause: the constraint joins the problem constraints and is watched.
appendClause(st, c) == [st EXCEPT !.db = Append(@, c)]
addLearned(st, c) == [st EXCEPT !.db = Append(@, c)]

\* Propagation to quiescence at level lvl: a constraint that can no longer be
\* satisfied is the conflict; otherwise a forced free literal is bound at lvl,
\* pushed on the trail, with the forcing constraint, locked, as its reason.
RECURSIVE Propagate(_, _)
Propagate(st, lvl) ==
    LET confl == {k \in 1..Len(st.db) : Conflicting(st.model, st.db[k])}
        forcing == {k \in 1..Len(st.db) : ForcedIdx(st.model, st.db[k]) # {}}
    IN IF confl # {} THEN [st |-> st, conflict |-> Min(confl)]
       ELSE IF forcing = {} THEN [st |-> st, conflict |-> 0]
       ELSE LET k == Min(forcing)
                l == st.db[k].lits[Min(ForcedIdx(st.model, st.db[k]))]
            IN Propagate([st EXCEPT !.model[Var(l)] = lvlToSignedLvl(l, lvl),
                                    !.trail = Append(@, l),
                                    !.reason[Var(l)] = k,
                                    !.db[k] = lock(@)], lvl)

\* unifyLiteral(lit, lvl): bind lit at lvl, push it, propagate; the conflicting
\* constraint (its index) or 0.
unifyLiteral(st, lit, lvl) ==
    Propagate([st EXCEPT !.model[Var(lit)] = lvlToSignedLvl(lit, lvl),
                         !.trail = Append(@, lit)], lvl)

\* ------------------------------------------------------ conflict analysis
TrailPos(st, v) == Max({i \in 1..Len(st.trail) : Var(st.trail[i]) = v})
\* The false literals of constraint k bound above the top level (as a clause:
\* one of them must be true), those bound before position p of the trail.
FalseLitsBefore(st, k, p) ==
    {x \in {st.db[k].lits[i] : i \in 1..Len(st.db[k].lits)} :
        /\ litStatus(st.model, x) = "Unsat"
        /\ abs(st.model[Var(x)]) # 1
        /\ TrailPos(st, Var(x)) < p}
AtLevel(st, W, lvl) == {x \in W : abs(st.model[Var(x)]) = lvl}
\* First UIP: walk the trail backwards, resolving the working clause W with the
\* reason of each of its literals of level lvl until one such literal is left.
RECURSIVE Analyze(_, _, _, _)
Analyze(st, W, i, lvl) ==
    IF i = 0 \/ Cardinality(AtLevel(st, W, lvl)) <= 1 THEN W
    ELSE LET l == st.trail[i]
         IN IF Negation(l) \notin W \/ st.reason[Var(l)] = 0 \/ abs(st.model[Var(l)]) # lvl
            THEN Analyze(st, W, i - 1, lvl)
            ELSE Analyze(st, (W \ {Negation(l)}) \cup FalseLitsBefore(st, st.reason[Var(l)], i), i - 1, lvl)
\* learnClause(conflict, lvl): the learned clause, asserting literal first and a
\* literal of the highest remaining level second; or no clause and a unit.
learnClause(st, conflict, lvl) ==
    LET W == Analyze(st, FalseLitsBefore(st, conflict, Len(st.trail) + 1), Len(st.trail), lvl)
        a == CHOOSE x \in W : abs(st.model[Var(x)]) = lvl
        rest == W \ {a}
    IN IF rest = {} THEN [learnt |-> <<>>, unit |-> a]
       ELSE LET top == Max({abs(st.model[Var(x)]) : x \in rest})
                b == Min({x \in rest : abs(st.model[Var(x)]) = top})
            IN [learnt |-> <<a, b>> \o SetToSeq(rest \ {b}), unit |-> a]
\* backtrackData: the level of the clause's second literal.
backtrackData(c, model) == abs(model[Var(c.lits[2])])

\* chooseLit: entries are removed from the queue until one of a free variable
\* comes out; that variable's literal of the preferred sign is the decision.
\* With no free variable in the queue the queue is emptied and there is no
\* literal (NoLit, the source's Lit(-1)).  All the outcomes the activities
\* allow: the variable v that comes out and the bound variables R whose
\* entries came out before it.
NoLit == 0
chooseLit(st) ==
    LET q == st.varQueue
        inq == {v \in 1..st.nbVars : q.cnt[v] > 0}
        F == {v \in inq : st.model[v] = 0}
        B == inq \ F
        drop(R, v) ==
            [cnt |-> [u \in 1..st.nbVars |-> IF u \in R THEN 0
                                              ELSE IF u = v THEN q.cnt[u] - 1 ELSE q.cnt[u]],
             idx |-> [u \in 1..st.nbVars |-> IF u \in R \cup {v} THEN FALSE ELSE q.idx[u]]]
    IN IF F = {} THEN {[st |-> [st EXCEPT !.varQueue = drop(B, 0)], lit |-> NoLit]}
       ELSE {[st |-> [st EXCEPT !.varQueue = drop(R, v)],
              lit |-> SignedLit(v, ~st.polarity[v])] : v \in F, R \in SUBSET B}

\* New: the solver of a problem.  The units are bound at level 1 and pushed on
\* the trail, in order.
New(problem) ==
    LET n == problem.nbVars
        units == problem.units
        st0 == [nbVars |-> n, status |-> problem.status, db |-> problem.clauses,
                trail |-> <<>>, model |-> problem.model, lastModel |-> <<>>,
                polarity |-> [v \in 1..n |-> FALSE], reason |-> [v \in 1..n |-> 0],
                varQueue |-> newQueue(n), lbd |-> FALSE,
                minLits |-> problem.minLits, minWeights |-> problem.minWeights,
                asumptions |-> <<>>]
        unitOf(v) == units[Max({i \in 1..Len(units) : Var(units[i]) = v})]
    IN [resetOptimPolarity(st0) EXCEPT
          !.model = [v \in 1..n |-> IF \E i \in 1..Len(units) : Var(units[i]) = v
                                    THEN (IF IsPositive(unitOf(v)) THEN 1 ELSE -1) ELSE problem.model[v]],
          !.trail = units]

\* propagateUnits: each unit in turn is asserted at level 1 after undoing to
\* level 1; a conflict makes the status Unsat and ends the loop.
RECURSIVE propagateUnits(_, _)
propagateUnits(st, units) ==
    IF units = <<>> THEN st
    ELSE LET unit == Head(units)
             st1 == cleanupBindings([st EXCEPT !.lbd = TRUE], 1)
             u == unifyLiteral([st1 EXCEPT !.model[Var(unit)] = lvlToSignedLvl(unit, 1)], unit, 1)
         IN IF u.conflict # 0 THEN [u.st EXCEPT !.status = "Unsat"]
            ELSE propagateUnits(rebuildOrderHeap(u.st), Tail(units))

\* AppendClause: undo to level 1, drop the literals bound at level 1 (a true
\* one also lowers the cardinality), then: already satisfied, unsatisfiable,
\* all remaining literals forced, or attached.
RECURSIVE acFilter(_, _, _, _, _)
acFilter(model, c, i, minW, maxW) ==
    IF i > Len(c.lits) THEN [clause |-> c, minW |-> minW, maxW |-> maxW]
    ELSE LET w == c.weights[i]
             ls == litStatus(model, c.lits[i])
         IN IF ls = "Sat" THEN acFilter(model, updateCardinality(removeLit(c, i), -w), i, minW + w, maxW + w)
            ELSE IF ls = "Unsat" THEN acFilter(model, removeLit(c, i), i, minW, maxW)
            ELSE acFilter(model, c, i + 1, minW, maxW + w)
\* AppendClause without the propagation of the forced literals.
AppendClauseSkipsForced(st, clause) ==
    LET st1 == cleanupBindings(st, 1)
        f == acFilter(st1.model, clause, 1, 0, 0)
    IN IF f.minW >= clause.card \/ f.maxW = clause.card THEN st1
       ELSE IF f.maxW < clause.card THEN [st1 EXCEPT !.status = "Unsat"]
       ELSE appendClause(st1, f.clause)
\* AppendClause without the undo to level 1.
AppendClauseKeepsLevels(st, clause) ==
    LET f == acFilter(st.model, clause, 1, 0, 0)
    IN IF f.minW >= clause.card THEN st
       ELSE IF f.maxW < clause.card THEN [st EXCEPT !.status = "Unsat"]
       ELSE IF f.maxW = clause.card THEN propagateUnits(st, f.clause.lits)
       ELSE appendClause(st, f.clause)
AppendClause(st, clause) ==
    LET st1 == cleanupBindings(st, 1)
        card == clause.card
        f == acFilter(st1.model, clause, 1, 0, 0)
    IN IF f.minW >= card THEN st1
       ELSE IF f.maxW < card THEN [st1 EXCEPT !.status = "Unsat"]
       ELSE IF f.maxW = card THEN propagateUnits(st1, f.clause.lits)
       ELSE appendClause(st1, f.clause)

\* --------------------------------------------------------------- problems
\* The literal sequences over variables 1..n, one literal per variable, in
\* the order of the variables.
LitSeqs(n, len) ==
    {q \in [1..len -> {l \in (-n)..n : l # 0}] : \A i \in 1..(len - 1) : Var(q[i]) < Var(q[i + 1])}
\* The constraints a problem is made of: clauses of two or three literals,
\* cardinality constraints "two of three", and weighted constraints.
Pool(n) ==
    {NewClause(q) : q \in LitSeqs(n, 2) \cup LitSeqs(n, 3)}
    \cup {NewCardClause(q, 2) : q \in LitSeqs(n, 3)}
    \cup {NewPBClause(q, <<3, 2, 1>>, 3) : q \in LitSeqs(n, 3)}
\* The sets of at most k constraints of P, and a set as a sequence.
RECURSIVE SubsetsUpTo(_, _)
SubsetsUpTo(P, k) ==
    IF k = 0 THEN {{}}
    ELSE LET prev == SubsetsUpTo(P, k - 1) IN prev \cup {S \cup {x} : S \in prev, x \in P}
RECURSIVE AsSeq(_)
AsSeq(S) == IF S = {} THEN <<>> ELSE LET x == CHOOSE y \in S : TRUE IN <<x>> \o AsSeq(S \ {x})
Mentions(c, v) == \E i \in 1..Len(c.lits) : Var(c.lits[i]) = v
ModelBools(m) == [v \in DOMAIN m |-> m[v] > 0]

\* s: the Solver.  pc, op: where the call in progress stands and which public
\* operation it is.  lit, lvl: the locals of propagateAndSearch; pasRet: who
\* called it.  loc: the locals of Minimize / Optimal / Enumerate.  models: the
\* models channel of the call.  ret: the last return.  cons: the constraints
\* the client gave (the problem's and those of AppendClause).  nCalls: the
\* calls made.  dirty: an enumeration or optimisation has added constraints.
\* stop: the stop channel of the call.  prob: the Problem value the solver is
\* built from; verdicts: what Solve returned on the solvers built from it before
\* this one.  varDecay: the package variable, in hundredths; NbConflicts: the
\* conflicts counted in the Stats of the solver.  f: the formula the client of
\* package bf holds.  worker: the Verbose field of the solver and the goroutine
\* that a Verbose Solve or CountModels starts to print its progress.
VARIABLES s, pc, op, lit, lvl, pasRet, loc, models, ret, cons, nCalls, dirty,
          stop, prob, verdicts, varDecay, NbConflicts, f, worker
client == <<stop, prob, verdicts, varDecay, NbConflicts, f>>
rest == <<client, worker>>
vars == <<s, pc, op, lit, lvl, pasRet, loc, models, ret, cons, nCalls, dirty, rest>>

NoChan == [nil |-> TRUE, sent |-> <<>>, closed |-> 0]
Loc0 == [fresh |-> TRUE, phase |-> "first", status |-> "Indet", cost |-> 0, maxCost |-> 0, weights |-> <<>>, nb |-> 0,
         res |-> [Status |-> "Indet", Model |-> <<>>, Weight |-> 0]]

\* No signal on the stop channel; at: the models the call had found when the
\* signal was sent.
NoStop == [signalled |-> FALSE, at |-> 0]
\* var varDecay = 0.8, in hundredths.
varDecay0 == 80
NoFormula == [t |-> "none"]
\* Verbose is false by default and no goroutine runs.  at: where the goroutine
\* is ("none", "select", "body", "returned"); end: the channel of the call
\* ("nil", "open", "closed"); printed: it has printed a progress line; leaked:
\* a goroutine was started while the one before it was still in its loop.
NoWorker == [Verbose |-> FALSE, at |-> "none", end |-> "nil", printed |-> FALSE, leaked |-> FALSE]
\* if s.Verbose { end = make(chan struct{}); defer close(end); go func() {...}() }
StartWorker(w) ==
    IF w.Verbose
    THEN [w EXCEPT !.at = "select", !.end = "open", !.leaked = @ \/ w.at \in {"select", "body"}]
    ELSE w
\* The deferred close(end), when the call made the channel.
CloseEnd(w) == IF w.end = "open" THEN [w EXCEPT !.end = "closed"] ELSE w

\* The state after New(problem).  The Model slice of the Problem value is the
\* model of the solver: New does not copy it.
InitOf(problem) ==
    /\ s = New(problem)
    /\ stop = NoStop /\ prob = problem /\ verdicts = <<>>
    /\ varDecay = varDecay0 /\ NbConflicts = 0 /\ f = NoFormula /\ worker = NoWorker
    /\ pc = "idle" /\ op = "none" /\ lit = NoLit /\ lvl = 0 /\ pasRet = "search"
    /\ loc = Loc0 /\ models = NoChan /\ ret = [op |-> "New", val |-> "ok", fresh |-> TRUE]
    /\ cons = {problem.clauses[i] : i \in 1..Len(problem.clauses)}
              \cup {NewClause(<<problem.units[i]>>) : i \in 1..Len(problem.units)}
              \cup (IF problem.status = "Unsat" THEN {NewClause(<<>>)} ELSE {})
    /\ nCalls = 0 /\ dirty = FALSE

\* ---------------------------------------------------- propagateAndSearch
\* s.Stats.NbConflicts%5000 == 0 && varDecay < 0.95: varDecay += 0.01.
DecayPeriod == 5000
DecayMax == 95
\* The first lines of the conflict branch: the conflict is counted in the
\* Stats of the solver and, every DecayPeriod conflicts, the package variable
\* varDecay goes up by a hundredth, up to DecayMax.
CountConflict ==
    /\ NbConflicts' = NbConflicts + 1
    /\ varDecay' = (IF (NbConflicts + 1) % DecayPeriod = 0 /\ varDecay < DecayMax
                    THEN varDecay + 1 ELSE varDecay)

\* Where propagateAndSearch returns to: search() stores the result in the
\* status; the enumeration loop drops it.
PasReturn(st, r) ==
    /\ s' = (IF pasRet = "search" THEN [st EXCEPT !.status = r] ELSE st)
    /\ pc' = (IF op \in {"Enumerate", "CountModels"} THEN "enumLoop" ELSE "solveLoop")
    /\ UNCHANGED <<op, lit, lvl, pasRet, loc, models, ret, cons, nCalls, dirty>>

\* for lit != -1 ... return Sat
PasSat ==
    /\ pc = "pas" /\ lit = NoLit
    /\ PasReturn(s, "Sat")
    /\ UNCHANGED rest

\* A restart that leaves the window as it is.
PasRestartKeepsWindow ==
    /\ pc = "pas" /\ lit # NoLit
    /\ LET u == unifyLiteral(s, lit, lvl)
       IN /\ u.conflict = 0
          /\ u.st.lbd
          /\ PasReturn(cleanupBindings(u.st, 1), "Indet")
    /\ UNCHANGED rest

\* A restart that returns Indet without undoing the decisions.
PasRestartKeepsDecisions ==
    /\ pc = "pas" /\ lit # NoLit
    /\ LET u == unifyLiteral(s, lit, lvl)
       IN /\ u.conflict = 0
          /\ u.st.lbd
          /\ PasReturn([u.st EXCEPT !.lbd = FALSE], "Indet")
    /\ UNCHANGED rest

\* No conflict and a restart is due: clear the window, undo to level 1, Indet.
PasRestart ==
    /\ pc = "pas" /\ lit # NoLit
    /\ LET u == unifyLiteral(s, lit, lvl)
       IN /\ u.conflict = 0
          /\ u.st.lbd
          /\ PasReturn(cleanupBindings([u.st EXCEPT !.lbd = FALSE], 1), "Indet")
    /\ UNCHANGED rest

\* No conflict, no restart: next level, next decision.
PasDecide ==
    /\ pc = "pas" /\ lit # NoLit
    /\ LET u == unifyLiteral(s, lit, lvl)
       IN /\ u.conflict = 0
          /\ \E o \in chooseLit(u.st) : s' = o.st /\ lit' = o.lit
          /\ lvl' = lvl + 1
    /\ UNCHANGED <<pc, op, pasRet, loc, models, ret, cons, nCalls, dirty>>
    /\ UNCHANGED rest

\* A learned unit taken for a top-level conflict.
PasLearnUnitGivesUp ==
    /\ pc = "pas" /\ lit # NoLit
    /\ LET u == unifyLiteral(s, lit, lvl)
       IN /\ u.conflict # 0
          /\ learnClause(u.st, u.conflict, lvl).learnt = <<>>
          /\ PasReturn([cleanupBindings(u.st, 1) EXCEPT !.status = "Unsat"], "Unsat")
    /\ CountConflict
    /\ UNCHANGED <<stop, prob, verdicts, f, worker>>

\* Conflict, a unit is learned: undo to level 1 and assert it there; a conflict
\* there is Unsat, otherwise the heap is rebuilt and the search goes on at level 2.
PasLearnUnit ==
    /\ pc = "pas" /\ lit # NoLit
    /\ LET u == unifyLiteral(s, lit, lvl)
       IN /\ u.conflict # 0
          /\ LET L == learnClause(u.st, u.conflict, lvl)
                 st1 == cleanupBindings([u.st EXCEPT !.lbd = TRUE], 1)
                 u2 == unifyLiteral([st1 EXCEPT !.model[Var(L.unit)] = lvlToSignedLvl(L.unit, 1)], L.unit, 1)
             IN /\ L.learnt = <<>>
                /\ IF u2.conflict # 0
                   THEN PasReturn([u2.st EXCEPT !.status = "Unsat"], "Unsat")
                   ELSE /\ \E o \in chooseLit(rebuildOrderHeap(u2.st)) : s' = o.st /\ lit' = o.lit
                        /\ lvl' = 2
                        /\ UNCHANGED <<pc, op, pasRet, loc, models, ret, cons, nCalls, dirty>>
    /\ CountConflict
    /\ UNCHANGED <<stop, prob, verdicts, f, worker>>

\* Conflict, a clause is learned: it is added, the solver undoes to the level
\* of its second literal, and its first literal is the next one bound, with the
\* clause, locked, as its reason.
PasLearnClause ==
    /\ pc = "pas" /\ lit # NoLit
    /\ LET u == unifyLiteral(s, lit, lvl)
       IN /\ u.conflict # 0
          /\ LET L == learnClause(u.st, u.conflict, lvl)
                 learnt == NewLearnedClause(L.learnt)
                 st1 == addLearned([u.st EXCEPT !.lbd = TRUE], learnt)
                 k == Len(st1.db)
                 bt == backtrackData(learnt, st1.model)
                 st2 == cleanupBindings(st1, bt)
             IN /\ L.learnt # <<>>
                /\ s' = [st2 EXCEPT !.reason[Var(L.unit)] = k, !.db[k] = lock(@)]
                /\ lvl' = bt
                /\ lit' = learnt.lits[1]
    /\ UNCHANGED <<pc, op, pasRet, loc, models, ret, cons, nCalls, dirty>>
    /\ CountConflict
    /\ UNCHANGED <<stop, prob, verdicts, f, worker>>

\* ------------------------------------------------------------------ Solve
\* A public operation returns val to the client.
Return(st, o, val, l) ==
    /\ s' = st /\ pc' = "idle" /\ op' = "none" /\ loc' = l
    /\ ret' = [op |-> o, val |-> val, fresh |-> l.fresh]
\* A public operation ends in a run-time panic.
Panic(st, o, l) ==
    /\ s' = st /\ pc' = "panic" /\ op' = o /\ loc' = l
    /\ ret' = [op |-> o, val |-> "panic", fresh |-> l.fresh]

\* What follows the return of Solve, in the client or in Minimize / Optimal.
SolveDone(st, o, l) ==
    IF o = "Solve" THEN Return(st, o, st.status, l)
    ELSE /\ s' = st /\ op' = o /\ ret' = ret
         /\ pc' = (IF o = "Minimize" THEN "min" ELSE "opt")
         /\ loc' = [l EXCEPT !.status = st.status]
\* A Solve without the Unsat test: it resets the status and searches.
SolveCallSearchesAnyway(st, o, l) ==
    /\ s' = [st EXCEPT !.status = "Indet"] /\ pc' = "search" /\ op' = o /\ ret' = ret /\ loc' = l
    /\ worker' = StartWorker(worker)

\* Solve's first lines: an Unsat solver answers at once, else the status is
\* Indet, a Verbose solver starts its worker, and the search starts.
SolveCall(st, o, l) ==
    IF st.status = "Unsat" THEN SolveDone(st, o, l) /\ UNCHANGED worker
    ELSE /\ s' = [st EXCEPT !.status = "Indet"] /\ pc' = "search" /\ op' = o /\ ret' = ret /\ loc' = l
         /\ worker' = StartWorker(worker)

\* search: a decision at level 2 and propagateAndSearch.
Search ==
    /\ pc = "search"
    /\ \E o \in chooseLit(s) : s' = o.st /\ lit' = o.lit
    /\ lvl' = 2 /\ pasRet' = "search" /\ pc' = "pas"
    /\ UNCHANGED <<op, loc, models, ret, cons, nCalls, dirty>>
    /\ UNCHANGED rest

\* Solve's loop after an Indet search: a restart, the heap is rebuilt.
SolveRestart ==
    /\ pc = "solveLoop" /\ s.status = "Indet"
    /\ s' = rebuildOrderHeap(s) /\ pc' = "search"
    /\ UNCHANGED <<op, lit, lvl, pasRet, loc, models, ret, cons, nCalls, dirty>>
    /\ UNCHANGED rest

\* A Verbose Solve that returns without the send on end.
SolveReturnWithoutEnd ==
    /\ pc = "solveLoop" /\ s.status # "Indet"
    /\ SolveDone(IF s.status = "Sat" THEN [s EXCEPT !.lastModel = s.model] ELSE s, op, loc)
    /\ UNCHANGED <<lit, lvl, pasRet, models, cons, nCalls, dirty>>
    /\ UNCHANGED rest

\* Solve's end: a Sat model is saved in lastModel; a Verbose Solve then sends
\* on end, the others return.
SolveReturn ==
    /\ pc = "solveLoop" /\ s.status # "Indet"
    /\ LET st == IF s.status = "Sat" THEN [s EXCEPT !.lastModel = s.model] ELSE s
       IN IF worker.Verbose
          THEN s' = st /\ pc' = "solveEnd" /\ UNCHANGED <<op, loc, ret>>
          ELSE SolveDone(st, op, loc)
    /\ UNCHANGED <<lit, lvl, pasRet, models, cons, nCalls, dirty>>
    /\ UNCHANGED rest

CallSolveWithin(max) ==
    /\ pc = "idle" /\ nCalls < max
    /\ SolveCall(s, "Solve", [Loc0 EXCEPT !.fresh = ~dirty])
    /\ nCalls' = nCalls + 1
    /\ UNCHANGED <<lit, lvl, pasRet, models, cons, dirty>>
    /\ UNCHANGED client
CallSolve == CallSolveWithin(MaxCalls)

\* The constraints the client appends (ret.arg: the constraint given).
AppendPool(n) ==
    {NewClause(<<1, 2>>), NewClause(<<-1, -2>>), NewCardClause(<<1, 2>>, 2), NewClause(<<-1>>),
     NewClause(<<-1, 2, 3>>), NewPBClause(<<1, 2, 3>>, <<2, 1, 1>>, 2)}
CallAppendClauseWithin(max) ==
    /\ pc = "idle" /\ nCalls < max
    /\ \E c \in {x \in AppendPool(s.nbVars) : \A i \in 1..Len(x.lits) : Var(x.lits[i]) <= s.nbVars} :
          /\ s' = AppendClause(s, c)
          /\ cons' = cons \cup {c}
          /\ ret' = [op |-> "AppendClause", val |-> "ok", fresh |-> ~dirty, arg |-> c]
    /\ nCalls' = nCalls + 1
    /\ UNCHANGED <<pc, op, lit, lvl, pasRet, loc, models, dirty>>
    /\ UNCHANGED rest
CallAppendClause == CallAppendClauseWithin(MaxCalls)

Pas == PasSat \/ PasRestart \/ PasDecide \/ PasLearnUnit \/ PasLearnClause \/ Search
Core == Pas \/ SolveRestart \/ SolveReturn

\* Solve and AppendClause on problems without objective.
Problem(n, cs, units, minLits, minWeights) ==
    [nbVars |-> n, status |-> "Indet", clauses |-> AsSeq(cs), units |-> units,
     model |-> [v \in 1..n |-> 0], minLits |-> minLits, minWeights |-> minWeights]
\* The problems are simplified ones: no constraint mentions the variable of a unit.
ProblemsSolve ==
    {Problem(MaxVars, cs, <<>>, <<>>, <<>>) : cs \in SubsetsUpTo(Pool(MaxVars), MaxClauses)}
    \cup {Problem(MaxVars, cs, <<u>>, <<>>, <<>>) :
            cs \in SubsetsUpTo({c \in Pool(MaxVars) : ~Mentions(c, 1)}, MaxClauses), u \in {1, -1}}
InitSolve == \E p \in ProblemsSolve : InitOf(p)
NextSolve == Core \/ CallSolve \/ CallAppendClause
SpecSolve == InitSolve /\ [][NextSolve]_vars

\* ------------------------------------------------------- Minimize, Optimal
\* The objective cost of the bindings: the weights (1 without weights) of the
\* objective literals that are true.
CostOf(st, model) ==
    SeqSum([i \in 1..Len(st.minLits) |->
        IF (model[Var(st.minLits[i])] > 0) = IsPositive(st.minLits[i])
        THEN (IF st.minWeights = <<>> THEN 1 ELSE st.minWeights[i]) ELSE 0])
MaxCostOf(st) == IF st.minWeights = <<>> THEN Len(st.minLits) ELSE SeqSum(st.minWeights)
\* sort.Sort(wLits{lits, weights}): by decreasing weight.  Less reads
\* weights[i] and weights[j]: with fewer weights than literals, and two
\* literals or more to compare, it is out of range.
SortFaults(lits, weights) == Len(lits) >= 2 /\ Len(weights) < Len(lits)
RECURSIVE SortDesc(_, _)
SortDesc(lits, weights) ==
    IF Len(lits) <= 1 \/ Len(weights) < Len(lits) THEN [lits |-> lits, weights |-> weights]
    ELSE LET m == Max({weights[i] : i \in 1..Len(weights)})
             i == Min({j \in 1..Len(weights) : weights[j] = m})
             drop(q) == [j \in 1..(Len(q) - 1) |-> IF j < i THEN q[j] ELSE q[j + 1]]
             r == SortDesc(drop(lits), drop(weights))
         IN [lits |-> <<lits[i]>> \o r.lits, weights |-> <<weights[i]>> \o r.weights]
\* ModelMap(): the saved model as truth values.
ModelMap(st) == ModelBools(st.lastModel)

\* The lines of Minimize and Optimal between the first Solve and the loop:
\* maxCost, the asumptions (the negated objective literals, sorted by
\* decreasing weight) and a fresh lastModel.
OptimSetup(st) ==
    LET neg == [i \in 1..Len(st.minLits) |-> Negation(st.minLits[i])]
        sorted == SortDesc(neg, st.minWeights)
    IN [st |-> [st EXCEPT !.asumptions = sorted.lits, !.lastModel = [v \in 1..st.nbVars |-> 0]],
        weights |-> sorted.weights]
\* A tightening constraint that still admits the cost just found.
TighteningAdmitsEqual(st, l, cost) == NewPBClause(st.asumptions, l.weights, l.maxCost - cost)
\* The tightening constraint after a model of the given cost.
Tightening(st, l, cost) == NewPBClause(st.asumptions, l.weights, l.maxCost - cost + 1)

CallMinimizeWithin(max) ==
    /\ pc = "idle" /\ nCalls < max
    /\ SolveCall(s, "Minimize", [Loc0 EXCEPT !.fresh = ~dirty])
    /\ nCalls' = nCalls + 1 /\ dirty' = TRUE
    /\ UNCHANGED <<lit, lvl, pasRet, models, cons>>
    /\ UNCHANGED client
CallMinimize == CallMinimizeWithin(MaxOptCalls)

\* After the first Solve: -1 on Unsat, 0 without objective, else the set-up.
MinimizeInit ==
    /\ pc = "min" /\ loc.phase = "first"
    /\ IF loc.status = "Unsat" THEN Return(s, op, -1, loc)
       ELSE IF s.minLits = <<>> THEN Return(s, op, 0, loc)
       ELSE IF SortFaults(s.minLits, s.minWeights)
            THEN Panic([s EXCEPT !.asumptions = [i \in 1..Len(s.minLits) |-> Negation(s.minLits[i])]], op, loc)
       ELSE /\ s' = OptimSetup(s).st
            /\ loc' = [loc EXCEPT !.phase = "loop", !.maxCost = MaxCostOf(s), !.weights = OptimSetup(s).weights]
            /\ UNCHANGED <<pc, op, ret>>
    /\ UNCHANGED <<lit, lvl, pasRet, models, cons, nCalls, dirty>>
    /\ UNCHANGED rest

\* for status == Sat: save the model, compute its cost, stop at cost 0, else
\* append the tightening constraint, rebuild the heap and solve again.
MinimizeLoop ==
    /\ pc = "min" /\ loc.phase = "loop"
    /\ IF loc.status # "Sat" THEN Return(s, op, loc.cost, loc) /\ UNCHANGED worker
       ELSE LET st1 == [s EXCEPT !.lastModel = s.model]
                cost == CostOf(s, s.model)
                l == [loc EXCEPT !.cost = cost]
            IN IF cost = 0 THEN Return(st1, op, 0, l) /\ UNCHANGED worker
               ELSE SolveCall(rebuildOrderHeap(AppendClause(st1, Tightening(st1, l, cost))), op, l)
    /\ UNCHANGED <<lit, lvl, pasRet, models, cons, nCalls, dirty>>
    /\ UNCHANGED client

\* Optimal(models, stop).  wantChan: the caller passes a channel (else nil).
CallOptimalWithin(max, wantChan) ==
    /\ pc = "idle" /\ nCalls < max
    /\ SolveCall(s, "Optimal", [Loc0 EXCEPT !.fresh = ~dirty])
    /\ models' = [nil |-> ~wantChan, sent |-> <<>>, closed |-> 0]
    /\ nCalls' = nCalls + 1 /\ dirty' = TRUE
    /\ UNCHANGED <<lit, lvl, pasRet, cons>>
    /\ UNCHANGED client
CallOptimal(wantChan) == CallOptimalWithin(MaxOptCalls, wantChan)

\* A return that leaves the channel open.
LeftOpen(ch) == ch
\* defer close(models), when models is not nil.
Closed(ch) == IF ch.nil THEN ch ELSE [ch EXCEPT !.closed = @ + 1]

OptimalInit ==
    /\ pc = "opt" /\ loc.phase = "first"
    /\ IF loc.status = "Unsat"
       THEN Return(s, op, [Status |-> "Unsat", Model |-> <<>>, Weight |-> 0], loc) /\ models' = Closed(models)
       ELSE IF s.minLits = <<>>
       THEN LET st1 == [s EXCEPT !.lastModel = s.model]
            IN Return(st1, op, [Status |-> "Sat", Model |-> ModelMap(st1), Weight |-> 0], loc)
               /\ models' = Closed(models)
       ELSE IF SortFaults(s.minLits, s.minWeights)
            THEN Panic([s EXCEPT !.asumptions = [i \in 1..Len(s.minLits) |-> Negation(s.minLits[i])]], op, loc)
                 /\ models' = Closed(models)
       ELSE /\ s' = OptimSetup(s).st
            /\ loc' = [loc EXCEPT !.phase = "loop", !.maxCost = MaxCostOf(s), !.weights = OptimSetup(s).weights]
            /\ UNCHANGED <<pc, op, ret, models>>
    /\ UNCHANGED <<lit, lvl, pasRet, cons, nCalls, dirty>>
    /\ UNCHANGED rest

\* The loop of Optimal: as Minimize's, with each result sent on models.  A send
\* on a nil channel blocks for ever.
OptimalLoop ==
    /\ pc = "opt" /\ loc.phase = "loop"
    /\ IF loc.status # "Sat" THEN Return(s, op, loc.res, loc) /\ models' = Closed(models) /\ UNCHANGED worker
       ELSE LET st1 == [s EXCEPT !.lastModel = s.model]
                cost == CostOf(s, s.model)
                res == [Status |-> "Sat", Model |-> ModelMap(st1), Weight |-> cost]
                l == [loc EXCEPT !.cost = cost, !.res = res]
                ch == [models EXCEPT !.sent = Append(@, res)]
            IN IF models.nil
               THEN s' = st1 /\ loc' = l /\ pc' = "blocked" /\ UNCHANGED <<op, ret, models, worker>>
               ELSE IF cost = 0 THEN Return(st1, op, res, l) /\ models' = Closed(ch) /\ UNCHANGED worker
               ELSE SolveCall(rebuildOrderHeap(AppendClause(st1, Tightening(st1, l, cost))), op, l)
                    /\ models' = ch
    /\ UNCHANGED <<lit, lvl, pasRet, cons, nCalls, dirty>>
    /\ UNCHANGED client

Optim == CallMinimize \/ MinimizeInit \/ MinimizeLoop
         \/ (\E wantChan \in BOOLEAN : CallOptimal(wantChan)) \/ OptimalInit \/ OptimalLoop

\* Minimize and Optimal on problems with an objective: the first literals
\* x1 .. xk, or the literal -x1, without weights or with weights 1..MaxWeight.
WeightSeqs(k) ==
    {<<>>, [i \in 1..k |-> 1]} \cup {[i \in 1..k |-> IF i = j THEN MaxWeight ELSE 1] : j \in 1..k}
Objectives(n) ==
    {[lits |-> <<>>, weights |-> <<>>]}
    \cup UNION {{[lits |-> [i \in 1..k |-> i], weights |-> w] : w \in WeightSeqs(k)} : k \in 1..n}
    \cup {[lits |-> <<-1>>, weights |-> w] : w \in WeightSeqs(1)}
\* Their constraints: the clauses of two literals, the clause of all the
\* variables and the weighted constraint 3 x1 + 2 x2 + x3 >= 3.
PoolOpt(n) ==
    {NewClause(q) : q \in LitSeqs(n, 2)}
    \cup {NewClause([i \in 1..n |-> i]), NewPBClause(<<1, 2, 3>>, <<3, 2, 1>>, 3)}
ProblemsOpt ==
    {Problem(MaxVars, cs, <<>>, o.lits, o.weights) :
        cs \in SubsetsUpTo(PoolOpt(MaxVars), MaxOptClauses), o \in Objectives(MaxVars)}
InitOpt == \E p \in ProblemsOpt : InitOf(p)
NextOpt == Core \/ Optim
SpecOpt == InitOpt /\ [][NextOpt]_vars

\* ------------------------------------------------- Enumerate, CountModels
\* decisionLits: one slot per level 2 .. the level of the last trail literal;
\* each variable bound above level 1 without reason writes the negation of its
\* value in the slot of its level, in the order of the variables.  An empty
\* trail, or a slot out of range, is a run-time panic.
DecisionFaults(st) ==
    \/ st.trail = <<>>
    \/ \E v \in 1..st.nbVars : /\ st.reason[v] = 0
                               /\ abs(st.model[v]) > abs(st.model[Var(st.trail[Len(st.trail)])])
decisionLits(st) ==
    LET lvls == abs(st.model[Var(st.trail[Len(st.trail)])])
        at(k) == {v \in 1..st.nbVars : st.reason[v] = 0 /\ abs(st.model[v]) = k + 1}
    IN [k \in 1..(lvls - 1) |->
          IF at(k) = {} THEN NoLit
          ELSE LET v == Max(at(k)) IN IF st.model[v] < 0 THEN v ELSE -v]

\* Enumerate(models, stop) and CountModels(): the first lines.  Enumerate
\* makes a fresh lastModel, a Verbose CountModels starts its worker; both take
\* a literal from chooseLit.
CallEnumerateWithin(max, kind, wantChan) ==
    /\ pc = "idle" /\ nCalls < max
    /\ \E o \in chooseLit(IF kind = "Enumerate" THEN [s EXCEPT !.lastModel = [v \in 1..s.nbVars |-> 0]] ELSE s) :
          s' = o.st /\ lit' = o.lit
    /\ lvl' = 2
    /\ pc' = "enumLoop" /\ op' = kind
    /\ loc' = [Loc0 EXCEPT !.fresh = ~dirty]
    /\ models' = [nil |-> ~wantChan, sent |-> <<>>, closed |-> 0]
    /\ nCalls' = nCalls + 1 /\ dirty' = TRUE
    /\ worker' = (IF kind = "CountModels" THEN StartWorker(worker) ELSE worker)
    /\ UNCHANGED <<pasRet, ret, cons>>
    /\ UNCHANGED client
CallEnumerate(kind, wantChan) == CallEnumerateWithin(MaxEnumCalls, kind, wantChan)

\* for s.status != Unsat: the loop ends; a Verbose CountModels then sends on
\* end, the others return nb.
EnumReturn ==
    /\ pc = "enumLoop" /\ s.status = "Unsat"
    /\ IF op = "CountModels" /\ worker.Verbose
       THEN pc' = "countEnd" /\ UNCHANGED <<s, op, loc, ret>>
       ELSE Return(s, op, loc.nb, loc)
    /\ models' = Closed(models)
    /\ UNCHANGED <<lit, lvl, pasRet, cons, nCalls, dirty>>
    /\ UNCHANGED rest

\* for s.status == Indet: search().
EnumSearch ==
    /\ pc = "enumLoop" /\ s.status = "Indet"
    /\ pc' = "search"
    /\ UNCHANGED <<s, op, lit, lvl, pasRet, loc, models, ret, cons, nCalls, dirty>>
    /\ UNCHANGED rest

\* if s.status == Sat: count the model (Enumerate with a channel saves and
\* sends it), then block it: no decision, Unsat; one, a unit; more, a clause
\* of the negated decisions, the last one asserted one level below its own.
EnumModel ==
    /\ pc = "enumLoop" /\ s.status = "Sat"
    /\ LET send == op = "Enumerate" /\ ~models.nil
           st1 == IF send THEN [s EXCEPT !.lastModel = s.model] ELSE s
           ch == IF send THEN [models EXCEPT !.sent = Append(@, ModelMap(st1))] ELSE models
           l == [loc EXCEPT !.nb = @ + 1]
           st2 == [st1 EXCEPT !.status = "Indet"]
       IN IF DecisionFaults(st2)
          THEN /\ Panic(st2, op, l) /\ models' = Closed(ch) /\ UNCHANGED <<lit, lvl, pasRet>>
               /\ worker' = (IF op = "CountModels" THEN CloseEnd(worker) ELSE worker)
          ELSE LET lits == decisionLits(st2)
               IN /\ models' = ch /\ loc' = l /\ UNCHANGED worker
                  /\ IF Len(lits) = 0
                     THEN s' = [st2 EXCEPT !.status = "Unsat"] /\ UNCHANGED <<pc, lit, lvl, pasRet>>
                     ELSE IF Len(lits) = 1
                     THEN s' = propagateUnits(st2, lits) /\ UNCHANGED <<pc, lit, lvl, pasRet>>
                     ELSE LET st3 == appendClause(st2, NewClause(lits))
                              k == Len(st3.db)
                              l2 == lits[Len(lits)]
                              lv == abs(st3.model[Var(l2)]) - 1
                          IN /\ s' = [cleanupBindings(st3, lv) EXCEPT !.reason[Var(l2)] = k]
                             /\ lit' = l2 /\ lvl' = lv /\ pasRet' = "discard" /\ pc' = "pas"
                  /\ UNCHANGED <<op, ret>>
    /\ UNCHANGED <<cons, nCalls, dirty>>
    /\ UNCHANGED client

Enum == (\E wantChan \in BOOLEAN : CallEnumerate("Enumerate", wantChan))
        \/ CallEnumerate("CountModels", FALSE) \/ EnumReturn \/ EnumSearch \/ EnumModel

\* Enumerate and CountModels on problems of 1..MaxVars variables.
PoolEnum(n) ==
    {NewClause(q) : q \in LitSeqs(n, 3)} \cup {NewClause(<<1, sg * 2>>) : sg \in IF n >= 2 THEN {1, -1} ELSE {}}
ProblemsEnum ==
    UNION {{Problem(n, cs, <<>>, <<>>, <<>>) : cs \in SubsetsUpTo(PoolEnum(n), MaxEnumClauses)} : n \in 1..MaxVars}
InitEnum == \E p \in ProblemsEnum : InitOf(p)
NextEnum == Pas \/ Enum
SpecEnum == InitEnum /\ [][NextEnum]_vars

\* ------------------------------------------------------------ properties
\* Weak fairness of each step of a call.  For the steps that bind a literal and
\* propagate it (one of them is enabled exactly when the loop of
\* propagateAndSearch holds a literal), weak fairness is written out:
\* WF_vars(A) is []<>~ENABLED <<A>>_vars \/ []<><<A>>_vars.
Unify == PasRestart \/ PasDecide \/ PasLearnUnit \/ PasLearnClause
FairSolve ==
    /\ InitSolve /\ [][NextSolve]_vars
    /\ WF_vars(PasSat) /\ WF_vars(Search) /\ WF_vars(SolveRestart) /\ WF_vars(SolveReturn)
    /\ ([]<>(~(pc = "pas" /\ lit # NoLit)) \/ []<><<Unify>>_vars)

SolveReturned == pc = "idle" /\ ret.op = "Solve"

C3_TotalWhenNoLit ==
    /\ (pc = "pas" /\ lit = NoLit) => \A v \in 1..s.nbVars : s.model[v] # 0
    /\ (pc = "idle" /\ ret.op = "Solve" /\ ret.val = "Sat") => \A v \in 1..s.nbVars : s.lastModel[v] # 0

\* C4: every call of Solve returns, with Sat or Unsat, never Indet.
C4_SolveTerminates ==
    /\ [](SolveReturned => ret.val \in {"Sat", "Unsat"})
    /\ (op = "Solve") ~> SolveReturned
\* Solve has returned after a restart inside the call.
C4_Witness == SolveReturned /\ ~s.lbd /\ \E k \in 1..Len(s.db) : s.db[k].learned

\* The objective cost of a total assignment.
ObjCost(st, a) ==
    SeqSum([i \in 1..Len(st.minLits) |->
        IF LitTrue(a, st.minLits[i]) THEN (IF st.minWeights = <<>> THEN 1 ELSE st.minWeights[i]) ELSE 0])
MinimizeEnded == pc \in {"idle", "panic"} /\ ret.op = "Minimize"

\* C5: Minimize returns -1 on an unsatisfiable problem, 0 without objective,
\* otherwise the least objective cost of a model; after a cost c >= 0 the saved
\* model is a model of the original constraints of cost exactly c.
C5_MinimizeOptimum ==
    MinimizeEnded =>
        /\ pc = "idle"
        /\ LET M == ModelsOf(s.nbVars, cons)
           IN IF M = {} THEN ret.val = -1
              ELSE /\ ModelMap(s) \in M
                   /\ ret.val = ObjCost(s, ModelMap(s))
                   /\ \A a \in M : ObjCost(s, a) >= ret.val
                   /\ s.minLits = <<>> => ret.val = 0

\* C6: without weights every objective literal weighs 1: Minimize and Optimal
\* end without a fault and report the number of objective literals that are
\* true in an optimal model.
C6_UnweightedObjective ==
    \A o \in {"Minimize", "Optimal"} :
        (pc \in {"idle", "panic"} /\ ret.op = o /\ s.minLits # <<>> /\ s.minWeights = <<>>
            /\ ModelsOf(s.nbVars, cons) # {})
        => /\ pc = "idle"
           /\ (IF o = "Minimize" THEN ret.val ELSE ret.val.Weight)
                = Min({Cardinality({i \in 1..Len(s.minLits) : LitTrue(a, s.minLits[i])}) :
                         a \in ModelsOf(s.nbVars, cons)})

\* C7: the costs Optimal writes to the models channel decrease strictly, the
\* result returned is the last one written, and the tightening constraint
\* after a model of cost c is satisfied by exactly the assignments of
\* objective cost at most c - 1.
C7_OptimalMonotone ==
    (op = "Optimal" \/ (pc = "idle" /\ ret.op = "Optimal")) =>
        /\ \A i, j \in 1..Len(models.sent) : i < j => models.sent[i].Weight > models.sent[j].Weight
        /\ (pc = "idle" /\ models.sent # <<>>) => ret.val = models.sent[Len(models.sent)]
        /\ \A i \in 1..Len(models.sent) :
              models.sent[i].Weight > 0 =>
                 \A a \in Assignments(s.nbVars) :
                    SatisfiedBy(Tightening(s, loc, models.sent[i].Weight), a)
                        <=> ObjCost(s, a) <= models.sent[i].Weight - 1
\* Optimal has returned after writing three results, the weights not all equal.
C7_Witness ==
    /\ pc = "idle" /\ ret.op = "Optimal" /\ Len(models.sent) >= 3
    /\ \E i, j \in 1..Len(s.minWeights) : s.minWeights[i] # s.minWeights[j]

\* C9: Optimal may be called with a nil models channel: on a satisfiable
\* optimisation problem it still returns; the results are written nowhere.
C9_NilChannelReturns == (op = "Optimal" /\ models.nil) => pc # "blocked"

\* C8: CountModels and Enumerate return the number of total assignments that
\* satisfy all the constraints, and Enumerate writes each of them once.
C8_CountsAllModels ==
    (pc \in {"idle", "panic"} /\ ret.op \in {"Enumerate", "CountModels"}) =>
        /\ pc = "idle"
        /\ ret.val = Cardinality(ModelsOf(s.nbVars, cons))
        /\ (ret.op = "Enumerate" /\ ~models.nil) =>
              /\ {models.sent[i] : i \in 1..Len(models.sent)} = ModelsOf(s.nbVars, cons)
              /\ \A i, j \in 1..Len(models.sent) : models.sent[i] = models.sent[j] => i = j

\* Enumerate, CountModels, Minimize and Optimal, with or without a models
\* channel, on a few problems: satisfiable and not, without objective, with
\* an objective without weights, with a weighted one.
PoolChan ==
    {NewClause(<<1, 2, 3>>), NewClause(<<-2, 3>>), NewClause(<<1, 2>>), NewCardClause(<<1, -2>>, 2),
     NewClause(<<-1, 2>>)}
ObjectivesChan ==
    {[lits |-> <<>>, weights |-> <<>>], [lits |-> <<1>>, weights |-> <<>>],
     [lits |-> <<1, 2>>, weights |-> <<>>], [lits |-> <<1, 2, 3>>, weights |-> <<MaxWeight, 1, 1>>]}
ProblemsChan ==
    {Problem(MaxVars, cs, <<>>, o.lits, o.weights) :
        cs \in SubsetsUpTo(PoolChan, MaxChanClauses), o \in ObjectivesChan}
InitChan == \E p \in ProblemsChan : InitOf(p)
NextChan == Core \/ Optim \/ Enum
SpecChan == InitChan /\ [][NextChan]_vars

\* C10: a models channel given to Enumerate or Optimal is closed exactly
\* once, when the call ends, whatever the path; nothing is sent on it once
\* it is closed; Enumerate returns the number of models it sent.
C10_ChannelClosedOnce ==
    /\ [](~models.nil =>
            /\ (pc \in {"idle", "panic"} /\ ret.op \in {"Enumerate", "Optimal"}) => models.closed = 1
            /\ (op \in {"Enumerate", "Optimal"} /\ pc \notin {"idle", "panic"}) => models.closed = 0
            /\ (pc = "idle" /\ ret.op = "Enumerate") => ret.val = Len(models.sent))
    /\ [][models.closed > 0 => (models'.closed = 0 \/ models' = models)]_vars
\* Enumerate has returned after sending two models or more on the channel.
C10_Witness ==
    pc = "idle" /\ ret.op = "Enumerate" /\ ~models.nil /\ models.closed = 1 /\ Len(models.sent) >= 2

\* ------------------------------------------------------------ cancellation
\* The models the call in progress has discovered so far.
Discovered == Max({loc.nb, Len(models.sent)})
\* The client sends on, or closes, the stop channel it gave to Enumerate or
\* Optimal, while the call runs.  Neither body reads stop: the signal changes
\* nothing in the call.
SignalStop ==
    /\ pc \notin {"idle", "panic", "blocked"} /\ op \in {"Enumerate", "Optimal"}
    /\ ~stop.signalled
    /\ stop' = [signalled |-> TRUE, at |-> Discovered]
    /\ UNCHANGED <<s, pc, op, lit, lvl, pasRet, loc, models, ret, cons, nCalls, dirty>>
    /\ UNCHANGED <<prob, verdicts, varDecay, NbConflicts, f, worker>>

\* Enumerate and Optimal with a client that may signal stop.
ProblemsStop ==
    {Problem(MaxVars, cs, <<>>, o.lits, o.weights) :
        cs \in {{NewClause(<<-2, 3>>), NewClause(<<1, 2, 3>>)}, {NewClause(<<1, 2>>)}},
        o \in {[lits |-> <<>>, weights |-> <<>>], [lits |-> <<1, 2, 3>>, weights |-> <<1, 1, 2>>]}}
InitStop == \E p \in ProblemsStop : InitOf(p)
NextStop == Core \/ Optim \/ Enum \/ SignalStop
SpecStop == InitStop /\ [][NextStop]_vars

\* C11: once a signal is available on stop, Enumerate and Optimal return
\* without searching for further models: the search in progress may still end
\* with a model, and none is discovered after that one.
C11_StopHonoured == stop.signalled => Discovered <= stop.at + 1

\* ------------------------------------------------------- Model, ModelMap
\* Model() and ModelMap(): a panic when lastModel is nil, else the truth values
\* of lastModel.
CallModel(kind) ==
    /\ pc = "idle"
    /\ IF s.lastModel = <<>> THEN Panic(s, kind, loc) ELSE Return(s, kind, ModelMap(s), loc)
    /\ UNCHANGED <<lit, lvl, pasRet, models, cons, nCalls, dirty>>
    /\ UNCHANGED rest

\* Solve, AppendClause, Enumerate and CountModels with a client that reads the model.
ProblemsModel ==
    {Problem(MaxVars, cs, <<>>, <<>>, <<>>) :
        cs \in {{NewClause(<<-2, 3>>), NewClause(<<1, 2, 3>>)}, {NewClause(<<1, 2>>)}}}
    \cup {Problem(MaxVars, {NewClause(<<-2, 3>>)}, <<1>>, <<>>, <<>>)}
InitModel == \E p \in ProblemsModel : InitOf(p)
NextModel == Core \/ CallSolve \/ CallAppendClause \/ Enum \/ (\E kind \in {"Model", "ModelMap"} : CallModel(kind))
SpecModel == InitModel /\ [][NextModel]_vars

\* C12: Model() and ModelMap() return a binding only when the status of the
\* solver is Sat; in every other state they panic.
C12_ModelOnlyWhenSat ==
    /\ (pc = "idle" /\ ret.op \in {"Model", "ModelMap"}) => s.status = "Sat"
    /\ (pc = "panic" /\ op \in {"Model", "ModelMap"}) => s.status # "Sat"

\* ------------------------------------------------------------ AppendClause
\* A step that is a call of AppendClause, and the assignment at level 1 the
\* constraint is classified against.
AppendStep == pc = "idle" /\ pc' = "idle" /\ nCalls' = nCalls + 1 /\ ret'.op = "AppendClause"
Level1(st) == cleanupBindings(st, 1)
\* The constraint without its literals bound at level 1, its cardinality
\* lowered by the weights of the true ones.
Reduced(model, c) ==
    LET keep == {i \in 1..Len(c.lits) : litStatus(model, c.lits[i]) = "Indet"}
        idx == SetToSeq(keep)
    IN [c EXCEPT !.lits = [k \in 1..Len(idx) |-> c.lits[idx[k]]],
                 !.weights = [k \in 1..Len(idx) |-> c.weights[idx[k]]],
                 !.card = c.card - TrueSum(model, c)]

\* The same literals with the same weights, in any order, and the same cardinality.
SameConstraint(c, d) ==
    /\ c.card = d.card /\ Len(c.lits) = Len(d.lits)
    /\ {<<c.lits[i], c.weights[i]>> : i \in 1..Len(c.lits)} = {<<d.lits[i], d.weights[i]>> : i \in 1..Len(d.lits)}

\* What AppendClause leaves for a constraint c: st1 is the solver undone to
\* level 1.  strict: in the forced case every remaining literal is true at
\* level 1; else that, or the status is Unsat.
Classified(strict) ==
    LET c == ret'.arg
        st1 == Level1(s)
        m == st1.model
    IN /\ \A v \in 1..s.nbVars : abs(s'.model[v]) <= 1
       /\ IF TrueSum(m, c) >= c.card THEN s' = st1
          ELSE IF PossibleMax(m, c) < c.card THEN s'.status = "Unsat"
          ELSE IF PossibleMax(m, c) = c.card
          THEN \/ ~strict /\ s'.status = "Unsat"
               \/ \A i \in 1..Len(c.lits) : litStatus(m, c.lits[i]) = "Indet" =>
                     s'.model[Var(c.lits[i])] = lvlToSignedLvl(c.lits[i], 1)
          ELSE /\ Len(s'.db) = Len(s.db) + 1
               /\ SubSeq(s'.db, 1, Len(s.db)) = st1.db
               /\ SameConstraint(s'.db[Len(s'.db)], Reduced(m, c))

ProblemsUnits ==
    {Problem(MaxVars, cs, u, <<>>, <<>>) :
        cs \in {{NewClause(<<-2, 3>>), NewClause(<<1, 2, 3>>)}, {NewClause(<<2, 3>>)}},
        u \in {<<>>, <<1, -1>>, <<-1, 1>>, <<2, 1, -2>>}}
InitUnits == \E p \in ProblemsUnits : InitOf(p)
NextUnits == Core \/ CallSolve \/ CallAppendClause
SpecUnits == InitUnits /\ [][NextUnits]_vars

\* The client has given a literal and its negation as units (in the Problem or
\* by AppendClause).
ContradictoryUnits == \E v \in 1..s.nbVars : {NewClause(<<v>>), NewClause(<<-v>>)} \subseteq cons
\* C14: when a unit is asserted at level 1 while its negation is assigned at
\* level 1, the status becomes Unsat without a crash: Solve never answers Sat
\* with the binding overwritten.
C14_ContradictoryUnitsUnsat ==
    /\ pc # "panic"
    /\ (SolveReturned /\ ContradictoryUnits) => ret.val = "Unsat"

\* ------------------------------------------------- two solvers, one Problem
MaxSolvers == 2
\* The client builds another solver from the same Problem value once Solve has
\* returned.  New takes problem.Model and problem.Clauses as they are: the
\* slice the previous solver wrote its bindings in, and the constraints it
\* locked.
CallNew ==
    /\ pc = "idle" /\ ret.op = "Solve" /\ Len(verdicts) < MaxSolvers - 1
    /\ LET p == [prob EXCEPT !.model = s.model, !.clauses = SubSeq(s.db, 1, Len(prob.clauses))]
       IN /\ s' = New(p)
          /\ prob' = p
    /\ verdicts' = Append(verdicts, ret.val)
    /\ ret' = [op |-> "New", val |-> "ok", fresh |-> TRUE]
    /\ nCalls' = 0 /\ dirty' = FALSE /\ NbConflicts' = 0
    /\ UNCHANGED <<pc, op, lit, lvl, pasRet, loc, models, cons>>
    /\ UNCHANGED <<stop, varDecay, f, worker>>

InitTwice == \E p \in ProblemsSolve : InitOf(p)
NextTwice == Core \/ CallSolve \/ CallNew
SpecTwice == InitTwice /\ [][NextTwice]_vars

\* C15: a solver built from the Problem value an earlier solver was built from
\* returns from Solve the status the earlier one returned.
C15_SameStatus == (SolveReturned /\ verdicts # <<>>) => ret.val = verdicts[1]

\* ------------------------------------------------------ process-wide state
MaxConflicts == 5000
\* A conflict of a search too long to be enumerated with MaxVars variables:
\* of the conflict branch, only the lines that count it and adjust varDecay.
Conflict ==
    /\ NbConflicts < MaxConflicts
    /\ CountConflict
    /\ UNCHANGED <<s, pc, op, lit, lvl, pasRet, loc, models, ret, cons, nCalls, dirty>>
    /\ UNCHANGED <<stop, prob, verdicts, f, worker>>

InitDecay == InitOf(Problem(1, {}, <<>>, <<>>, <<>>))
NextDecay == Conflict
SpecDecay == InitDecay /\ [][NextDecay]_vars

\* C16: what a search writes belongs to its solver: a conflict of one solver
\* leaves unchanged the decay factor every solver instance of the process reads.
C16_DecayUntouched == [][NbConflicts' # NbConflicts => varDecay' = varDecay]_vars

\* ================================================================ package bf
\* Formulas: the constants, variables (pbVar, dummyVar), literals of the
\* negation normal form, not, and, or.
True == [t |-> "true"]
False == [t |-> "false"]
pbVar(name) == [t |-> "var", name |-> name, dummy |-> FALSE]
dummyVar(name) == [t |-> "var", name |-> name, dummy |-> TRUE]
bfLit(v, signed) == [t |-> "lit", v |-> v, signed |-> signed]
Not(g) == [t |-> "not", sub |-> g]
And(subs) == [t |-> "and", subs |-> subs]
Or(subs) == [t |-> "or", subs |-> subs]
Implies(g, h) == Or(<<Not(g), h>>)
Eq(g, h) == And(<<Or(<<Not(g), h>>), Or(<<g, Not(h)>>)>>)
Xor(g, h) == And(<<Or(<<Not(g), Not(h)>>), Or(<<g, h>>)>>)

\* int(math.Sqrt(n) + 0.5) and int(math.Ceil(math.Sqrt(n))).
sqrtRound(n) == CHOOSE k \in 0..n : (2 * k - 1) * (2 * k - 1) <= 4 * n /\ 4 * n < (2 * k + 1) * (2 * k + 1)
sqrtCeil(n) == CHOOSE k \in 0..n : k * k >= n /\ (k = 0 \/ (k - 1) * (k - 1) < n)
\* strings.Join(names, "-")
RECURSIVE Join(_)
Join(names) == IF Len(names) = 1 THEN names[1] ELSE names[1] \o "-" \o Join(Tail(names))
\* uniqueSmall: one of the variables is true, and no two of them are.
uniqueSmall(vs) ==
    LET n == Len(vs)
        pairs == SetToSeq({p[1] * n + p[2] : p \in {q \in (1..n) \X (1..n) : q[1] < q[2]}})
    IN And(<<Or(vs)>> \o [k \in 1..Len(pairs) |->
                            Or(<<Not(vs[(pairs[k] - 1) \div n]), Not(vs[((pairs[k] - 1) % n) + 1])>>)])
\* uniqueRec: up to 4 variables, uniqueSmall; more, the variables are laid out
\* in nbLines lines and nbCols columns of dummy variables: each variable
\* implies its line and its column, exactly one line and exactly one column hold.
RECURSIVE uniqueRec(_)
uniqueRec(vs) ==
    LET nbVars == Len(vs)
        nbLines == sqrtRound(nbVars)
        nbCols == sqrtCeil(nbVars)
        fullName == Join([i \in 1..nbVars |-> vs[i].name])
        lines == [i \in 1..nbLines |-> dummyVar("line-" \o ToString(i - 1) \o "-" \o fullName)]
        cols == [i \in 1..nbCols |-> dummyVar("col-" \o ToString(i - 1) \o "-" \o fullName)]
        res == [k \in 1..(2 * nbVars) |->
                  LET i == (k - 1) \div 2
                  IN IF k % 2 = 1 THEN Or(<<Not(vs[i + 1]), lines[(i \div nbCols) + 1]>>)
                     ELSE Or(<<Not(vs[i + 1]), cols[(i % nbCols) + 1]>>)]
    IN IF nbVars <= 4 THEN uniqueSmall(vs)
       ELSE And(res \o <<uniqueRec(lines), uniqueRec(cols)>>)
\* Unique(vars...): exactly one of the named variables is true.
Unique(names) == uniqueRec([i \in 1..Len(names) |-> pbVar(names[i])])

\* nnf: negations pushed to the variables; an "and" in an "and" (an "or" in an
\* "or") is spliced in; True is dropped from an "and" and False decides it
\* (dually for "or"); one operand left stands for the whole; none left gives
\* False for "and" and True for "or".
RECURSIVE nnf(_), nnfNot(_), nnfAnd(_, _), nnfOr(_, _)
nnf(g) ==
    CASE g.t = "var" -> bfLit(g, FALSE)
      [] g.t \in {"lit", "true", "false"} -> g
      [] g.t = "not" -> nnfNot(g.sub)
      [] g.t = "and" -> nnfAnd(g.subs, <<>>)
      [] g.t = "or" -> nnfOr(g.subs, <<>>)
\* not{h}.nnf()
nnfNot(h) ==
    CASE h.t = "var" -> bfLit(h, TRUE)
      [] h.t = "lit" -> [h EXCEPT !.signed = ~@]
      [] h.t = "not" -> nnf(h.sub)
      [] h.t = "and" -> nnf(Or([i \in 1..Len(h.subs) |-> nnfNot(h.subs[i])]))
      [] h.t = "or" -> nnf(And([i \in 1..Len(h.subs) |-> nnfNot(h.subs[i])]))
      [] h.t = "true" -> False
      [] h.t = "false" -> True
\* and.nnf(): the loop over the operands left, res the result so far.
nnfAnd(subs, res) ==
    IF subs = <<>>
    THEN (IF Len(res) = 1 THEN res[1] ELSE IF Len(res) = 0 THEN False ELSE And(res))
    ELSE LET n == nnf(Head(subs))
         IN IF n.t = "and" THEN nnfAnd(Tail(subs), res \o n.subs)
            ELSE IF n.t = "true" THEN nnfAnd(Tail(subs), res)
            ELSE IF n.t = "false" THEN False
            ELSE nnfAnd(Tail(subs), Append(res, n))
\* or.nnf()
nnfOr(subs, res) ==
    IF subs = <<>>
    THEN (IF Len(res) = 1 THEN res[1] ELSE IF Len(res) = 0 THEN True ELSE Or(res))
    ELSE LET n == nnf(Head(subs))
         IN IF n.t = "or" THEN nnfOr(Tail(subs), res \o n.subs)
            ELSE IF n.t = "false" THEN nnfOr(Tail(subs), res)
            ELSE IF n.t = "true" THEN True
            ELSE nnfOr(Tail(subs), Append(res, n))

\* vars: all, the variables by index (those of the formula and those made for
\* the conversion); pb, the indices given by litValue.
NoVars == [all |-> <<>>, pb |-> {}]
\* litValue: the index of the variable of the literal, a new one when it has
\* none, negated for a signed literal.
litValue(vs, l) ==
    LET known == {i \in 1..Len(vs.all) : vs.all[i] = l.v}
        val == IF known # {} THEN Min(known) ELSE Len(vs.all) + 1
    IN [vars |-> (IF known # {} THEN vs ELSE [all |-> Append(vs.all, l.v), pb |-> vs.pb \cup {val}]),
        val |-> (IF l.signed THEN -val ELSE val)]
\* dummy: a new variable "dummy-<index>".
dummy(vs) ==
    LET val == Len(vs.all) + 1
    IN [vars |-> [vs EXCEPT !.all = Append(@, dummyVar("dummy-" \o ToString(val)))], val |-> val]

\* cnfRec: the clauses of a formula in negation normal form.  In an "or", an
\* "and" operand gets a dummy variable d: d joins the clause of the "or", and
\* for each operand of the "and" the FIRST clause of its conversion, with -d
\* added, joins the result.  Any other operand of an "or" that is not a
\* literal is a panic.
RECURSIVE cnfRec(_, _), cnfAnd(_, _), cnfOr(_, _, _, _), cnfOrAnd(_, _, _)
cnfRec(g, vs) ==
    CASE g.t = "lit" -> [clauses |-> <<<<litValue(vs, g).val>>>>, vars |-> litValue(vs, g).vars, panic |-> FALSE]
      [] g.t = "and" -> cnfAnd(g.subs, vs)
      [] g.t = "or" -> cnfOr(g.subs, vs, <<>>, <<>>)
      [] g.t = "true" -> [clauses |-> <<>>, vars |-> vs, panic |-> FALSE]
      [] g.t = "false" -> [clauses |-> <<<<>>>>, vars |-> vs, panic |-> FALSE]
      [] OTHER -> [clauses |-> <<>>, vars |-> vs, panic |-> TRUE]
cnfAnd(subs, vs) ==
    IF subs = <<>> THEN [clauses |-> <<>>, vars |-> vs, panic |-> FALSE]
    ELSE LET h == cnfRec(Head(subs), vs)
             r == cnfAnd(Tail(subs), h.vars)
         IN [clauses |-> h.clauses \o r.clauses, vars |-> r.vars, panic |-> h.panic \/ r.panic]
cnfOr(subs, vs, res, lits) ==
    IF subs = <<>> THEN [clauses |-> Append(res, lits), vars |-> vs, panic |-> FALSE]
    ELSE LET sub == Head(subs)
         IN IF sub.t = "lit"
            THEN LET lv == litValue(vs, sub) IN cnfOr(Tail(subs), lv.vars, res, Append(lits, lv.val))
            ELSE IF sub.t = "and"
            THEN LET d == dummy(vs)
                     inner == cnfOrAnd(sub.subs, d.vars, d.val)
                     r == cnfOr(Tail(subs), inner.vars, res \o inner.clauses, Append(lits, d.val))
                 IN [r EXCEPT !.panic = @ \/ inner.panic]
            ELSE [clauses |-> res, vars |-> vs, panic |-> TRUE]
\* for _, sub2 := range sub: cnfRec(sub2, vars)[0] with -d appended.
cnfOrAnd(subs2, vs, d) ==
    IF subs2 = <<>> THEN [clauses |-> <<>>, vars |-> vs, panic |-> FALSE]
    ELSE LET h == cnfRec(Head(subs2), vs)
             r == cnfOrAnd(Tail(subs2), h.vars, d)
         IN IF h.panic \/ h.clauses = <<>> THEN [clauses |-> <<>>, vars |-> h.vars, panic |-> TRUE]
            ELSE [clauses |-> <<Append(h.clauses[1], -d)>> \o r.clauses, vars |-> r.vars, panic |-> r.panic]
asCnf(g) == cnfRec(nnf(g), NoVars)

\* The assignments of the variables 1..n that satisfy every clause.
CnfModels(n, clauses) ==
    {a \in [1..n -> BOOLEAN] :
        \A k \in 1..Len(clauses) : \E j \in 1..Len(clauses[k]) : a[abs(clauses[k][j])] = (clauses[k][j] > 0)}
\* cnf.solve(): the clauses go to the solver; when it answers Sat, the model
\* maps the name of each variable of pb to its value.  The results it can give.
cnfSolve(c) ==
    LET n == Len(c.vars.all)
        names == {c.vars.all[i].name : i \in c.vars.pb}
        idx(nm) == CHOOSE i \in c.vars.pb : c.vars.all[i].name = nm
        M == CnfModels(n, c.clauses)
    IN IF M = {} THEN {[sat |-> FALSE, model |-> <<>>]}
       ELSE {[sat |-> TRUE, model |-> [nm \in names |-> a[idx(nm)]]] : a \in M}

\* bf.Solve(f): asCnf(f).solve().
bfSolve(g) ==
    LET c == asCnf(g)
    IN IF c.panic THEN {[panic |-> TRUE, sat |-> FALSE, model |-> <<>>]}
       ELSE {[panic |-> FALSE, sat |-> r.sat, model |-> r.model] : r \in cnfSolve(c)}

\* The meaning of a formula under an assignment a of its variable names.
RECURSIVE Eval(_, _), Names(_)
Eval(g, a) ==
    CASE g.t = "var" -> a[g.name]
      [] g.t = "lit" -> a[g.v.name] # g.signed
      [] g.t = "not" -> ~Eval(g.sub, a)
      [] g.t = "and" -> \A i \in 1..Len(g.subs) : Eval(g.subs[i], a)
      [] g.t = "or" -> \E i \in 1..Len(g.subs) : Eval(g.subs[i], a)
      [] g.t = "true" -> TRUE
      [] g.t = "false" -> FALSE
Names(g) ==
    CASE g.t = "var" -> {g.name}
      [] g.t = "lit" -> {g.v.name}
      [] g.t = "not" -> Names(g.sub)
      [] g.t \in {"and", "or"} -> UNION {Names(g.subs[i]) : i \in 1..Len(g.subs)}
      [] OTHER -> {}
Satisfiable(g) == \E a \in [Names(g) -> BOOLEAN] : Eval(g, a)
\* A returned model read at the names N: a name it does not hold reads false.
ReadAt(model, N) == [nm \in N |-> IF nm \in DOMAIN model THEN model[nm] ELSE FALSE]

\* The formulas of the client: constants and variables; one connective over
\* them; a negation, or an "and" / "or" with one more operand, over those; and
\* an "or" holding an "and" holding an "or" holding an "and" of literals.
Atoms == {pbVar("a"), pbVar("b"), True, False}
Lits == {pbVar("a"), pbVar("b"), Not(pbVar("a")), Not(pbVar("b"))}
Simple ==
    Atoms \cup {Not(x) : x \in Atoms} \cup {And(<<>>), Or(<<>>)}
    \cup {And(<<x>>) : x \in Atoms} \cup {Or(<<x>>) : x \in Atoms}
    \cup {And(<<x, y>>) : x, y \in Atoms} \cup {Or(<<x, y>>) : x, y \in Atoms}
    \cup {Implies(x, y) : x, y \in Atoms} \cup {Eq(x, y) : x, y \in Atoms} \cup {Xor(x, y) : x, y \in Atoms}
Nested == {Or(<<x, And(<<y, Or(<<z, And(<<u, v>>)>>)>>)>>) : x, y, z, u, v \in Lits}
Formulas ==
    Simple \cup {Not(x) : x \in Simple}
    \cup {And(<<x, y>>) : x \in Simple, y \in Atoms} \cup {Or(<<x, y>>) : x \in Simple, y \in Atoms}
    \cup Nested

\* The lists of names the client gives to Unique.
MaxUnique == 6
NameLists ==
    {SubSeq(<<"a", "b", "c", "d", "e", "g">>, 1, k) : k \in 1..MaxUnique}
    \cup {<<"b", "a">>, <<"c", "a", "b">>, <<"e", "d", "c", "b", "a">>}

\* The client builds a formula, then calls bf.Solve on it.
BuildUnique ==
    /\ pc = "idle" /\ f = NoFormula
    /\ \E names \in NameLists :
          /\ f' = Unique(names)
          /\ ret' = [op |-> "Unique", val |-> names, fresh |-> TRUE]
    /\ UNCHANGED <<s, pc, op, lit, lvl, pasRet, loc, models, cons, nCalls, dirty>>
    /\ UNCHANGED <<stop, prob, verdicts, varDecay, NbConflicts, worker>>
BuildFormula ==
    /\ pc = "idle" /\ f = NoFormula
    /\ \E g \in Formulas : f' = g
    /\ UNCHANGED <<s, pc, op, lit, lvl, pasRet, loc, models, ret, cons, nCalls, dirty>>
    /\ UNCHANGED <<stop, prob, verdicts, varDecay, NbConflicts, worker>>
CallBfSolve ==
    /\ pc = "idle" /\ f # NoFormula /\ ret.op # "bf.Solve"
    /\ \E r \in bfSolve(f) :
          /\ ret' = [op |-> "bf.Solve", val |-> r, fresh |-> TRUE]
          /\ pc' = (IF r.panic THEN "panic" ELSE "idle")
    /\ UNCHANGED <<s, op, lit, lvl, pasRet, loc, models, cons, nCalls, dirty>>
    /\ UNCHANGED rest

InitBf == InitOf(Problem(1, {}, <<>>, <<>>, <<>>))
NextBf == BuildFormula \/ BuildUnique \/ CallBfSolve
SpecBf == InitBf /\ [][NextBf]_vars

\* C17: bf.Solve(f) returns sat = true exactly when f is satisfiable, and then
\* the returned model, read at the variables of f, makes f true.
C17_BfSolveDecides ==
    ret.op = "bf.Solve" =>
        /\ pc = "idle"
        /\ ret.val.sat = Satisfiable(f)
        /\ ret.val.sat => Eval(f, ReadAt(ret.val.model, Names(f)))

\* An assignment of the given names can be extended, by values for the other
\* variables of g, to an assignment that makes g true.
Extendable(g, a) ==
    \E b \in [Names(g) \ DOMAIN a -> BOOLEAN] :
        Eval(g, [nm \in Names(g) |-> IF nm \in DOMAIN a THEN a[nm] ELSE b[nm]])
\* C18: an assignment of the names given to Unique can be extended to a model
\* of the formula exactly when one and only one of them is true.
C18_UniqueExactlyOne ==
    ret.op = "Unique" =>
        LET N == {ret.val[i] : i \in 1..Len(ret.val)}
        IN \A a \in [N -> BOOLEAN] : Extendable(f, a) <=> Cardinality({nm \in N : a[nm]}) = 1

\* ------------------------------------------------------------ Unsat solvers
MaxUnsatCalls == 3
\* Every public operation, in any order, on problems that are Unsat from the
\* start, found Unsat by the search, or made Unsat by AppendClause.
ProblemsUnsat ==
    {[Problem(2, {}, <<>>, <<1>>, <<>>) EXCEPT !.status = "Unsat"],
     Problem(2, {NewCardClause(<<1, 2>>, 2), NewClause(<<-1, -2>>)}, <<>>, <<1>>, <<>>),
     Problem(2, {NewClause(<<-1, 2>>)}, <<1>>, <<>>, <<>>),
     Problem(3, {NewClause(<<-2, 3>>), NewClause(<<1, 2, 3>>)}, <<>>, <<3>>, <<>>)}
SpecUnsat ==
    /\ \E p \in ProblemsUnsat : InitOf(p)
    /\ [][Core \/ CallSolveWithin(MaxUnsatCalls) \/ CallAppendClauseWithin(MaxUnsatCalls)
          \/ CallMinimizeWithin(MaxUnsatCalls) \/ MinimizeInit \/ MinimizeLoop
          \/ CallOptimalWithin(MaxUnsatCalls, TRUE) \/ OptimalInit \/ OptimalLoop
          \/ (\E kind \in {"Enumerate", "CountModels"} : CallEnumerateWithin(MaxUnsatCalls, kind, kind = "Enumerate"))
          \/ EnumReturn \/ EnumSearch \/ EnumModel]_vars

\* C19: Unsat is absorbing.  From a state whose status is Unsat, every step
\* leaves it Unsat and none searches; Solve returns Unsat; Minimize returns -1
\* or the cost of the last model found; Optimal returns Unsat or its last
\* result; Enumerate and CountModels count and send no further model.
C19_UnsatAbsorbing ==
    [][s.status = "Unsat" =>
        /\ s'.status = "Unsat"
        /\ pc' \notin {"search", "pas"}
        /\ (pc' = "idle" /\ ret'.op = "Solve" /\ (nCalls' # nCalls \/ pc = "solveLoop")) => ret'.val = "Unsat"
        /\ (pc = "min" /\ pc' = "idle") =>
              ret'.val = -1 \/ (s'.lastModel # <<>> /\ ret'.val = CostOf(s', s'.lastModel))
        /\ (pc = "opt" /\ pc' = "idle") => ret'.val.Status = "Unsat" \/ ret'.val = loc.res
        /\ (pc = "idle" /\ pc' = "enumLoop") => loc'.nb = 0 /\ models'.sent = <<>>
        /\ pc = "enumLoop" => pc' = "idle" /\ ret'.val = loc.nb /\ models'.sent = models.sent]_vars
\* A solver found Unsat by its first call has answered two more calls.
C19_Witness ==
    /\ pc = "idle" /\ s.status = "Unsat" /\ nCalls = MaxUnsatCalls
    /\ ret.op = "CountModels" /\ prob.status = "Indet" /\ prob.units = <<>>

\* ------------------------------------------------------ trail and model
\* The trail positions that hold a literal of variable v.
TrailEntries(st, v) == {i \in 1..Len(st.trail) : Var(st.trail[i]) = v}
TrailModelConsistent(st) ==
    \A v \in 1..st.nbVars :
        /\ st.model[v] # 0 <=> Cardinality(TrailEntries(st, v)) = 1
        /\ st.model[v] # 0 => \A i \in TrailEntries(st, v) : (st.model[v] > 0) = IsPositive(st.trail[i])

\* C20: trail-model consistency.  In every reachable state a variable is bound
\* iff exactly one literal of it is on the trail, and the sign of its binding is
\* the sign of that literal.
C20_TrailModelConsistent == TrailModelConsistent(s)

\* ------------------------------------------------------------ backtracking
\* The calls of cleanupBindings the solver is about to make: each is the solver
\* state at the call and the level given.  In propagateAndSearch: a restart, a
\* learned unit, a learned clause; in AppendClause; in the blocking step of an
\* enumeration.
CleanupCalls ==
    (IF pc = "pas" /\ lit # NoLit
     THEN LET u == unifyLiteral(s, lit, lvl)
          IN IF u.conflict = 0
             THEN (IF u.st.lbd THEN {[st |-> [u.st EXCEPT !.lbd = FALSE], lvl |-> 1]} ELSE {})
             ELSE LET L == learnClause(u.st, u.conflict, lvl)
                  IN IF L.learnt = <<>> THEN {[st |-> [u.st EXCEPT !.lbd = TRUE], lvl |-> 1]}
                     ELSE LET st1 == addLearned([u.st EXCEPT !.lbd = TRUE], NewLearnedClause(L.learnt))
                          IN {[st |-> st1, lvl |-> backtrackData(NewLearnedClause(L.learnt), st1.model)]}
     ELSE {})
    \cup (IF pc = "idle" THEN {[st |-> s, lvl |-> 1]} ELSE {})
    \cup (IF pc = "enumLoop" /\ s.status = "Sat" /\ ~DecisionFaults(s) /\ Len(decisionLits(s)) >= 2
          THEN LET lits == decisionLits(s)
                   st3 == appendClause([s EXCEPT !.status = "Indet"], NewClause(lits))
               IN {[st |-> st3, lvl |-> abs(st3.model[Var(lits[Len(lits)])]) - 1]}
          ELSE {})
\* The trail entries of variable v: positions and literals.
EntriesOf(st, v) == {<<i, st.trail[i]>> : i \in TrailEntries(st, v)}
\* cleanupBindings(L) took the solver from st to st2.
Coherent(st, L, st2) ==
    /\ \A i \in 1..Len(st2.trail) : abs(st2.model[Var(st2.trail[i])]) <= L
    /\ \A v \in 1..st.nbVars :
          abs(st.model[v]) > L =>
              st2.model[v] = 0 /\ st2.reason[v] = 0 /\ contains(st2.varQueue, v) /\ st2.varQueue.cnt[v] > 0
    /\ \A v \in 1..st.nbVars :
          (st.model[v] # 0 /\ abs(st.model[v]) <= L) =>
              /\ st2.model[v] = st.model[v] /\ st2.reason[v] = st.reason[v]
              /\ EntriesOf(st2, v) = EntriesOf(st, v)

C22_LockCountsReasons ==
    \A k \in 1..Len(s.db) : s.db[k].lock = Cardinality({v \in 1..s.nbVars : s.reason[v] = k})

\* ---------------------------------------------------------------- restarts
\* propagateAndSearch returns Indet: the step that leaves its loop with a
\* literal in hand and no conflict counted.
RestartStep == pc = "pas" /\ pc' # "pas" /\ lit # NoLit /\ NbConflicts' = NbConflicts

\* C23: a restart keeps exactly the top-level state.  Every variable bound at
\* level 1 before it has the same binding after it, no variable is bound above
\* level 1, and the search that follows decides at level 2.
C23_RestartKeepsTopLevel ==
    [][/\ RestartStep =>
            /\ \A v \in 1..s.nbVars : abs(s.model[v]) = 1 => s'.model[v] = s.model[v]
            /\ \A v \in 1..s.nbVars : abs(s'.model[v]) <= 1
            /\ \A i \in 1..Len(s'.trail) : abs(s'.model[Var(s'.trail[i])]) = 1
       /\ pc = "search" => lvl' = 2]_vars
\* The solver is back in Solve's loop after a restart, with a binding at level 1
\* and a learned clause.
C23_Witness ==
    /\ pc = "solveLoop" /\ s.status = "Indet" /\ ~s.lbd
    /\ \E v \in 1..s.nbVars : abs(s.model[v]) = 1
    /\ \E k \in 1..Len(s.db) : s.db[k].learned

\* ---------------------------------------------------------------- polarity
ObjectiveVars(st) == {Var(st.minLits[i]) : i \in 1..Len(st.minLits)}
\* The preferred polarity of every objective variable makes its literal false.
ObjectiveFalsified(st) ==
    \A i \in 1..Len(st.minLits) : st.polarity[Var(st.minLits[i])] = ~IsPositive(st.minLits[i])
\* cleanupBindings took the solver from st to st2: phase saving for the
\* variables it unbound, the objective's polarity for the objective variables.
PhaseSaved(st, st2) ==
    /\ ObjectiveFalsified(st2)
    /\ \A v \in 1..st.nbVars :
          (st.model[v] # 0 /\ st2.model[v] = 0 /\ v \notin ObjectiveVars(st)) =>
              st2.polarity[v] = (st.model[v] > 0)

\* C24: decision polarity.  After any backtrack a variable that was unbound
\* prefers the value it had, except that an objective variable prefers the value
\* that makes its objective literal false, also after New; chooseLit returns
\* the literal of the chosen variable with the preferred polarity.
C24_DecisionPolarity ==
    /\ ObjectiveFalsified(s)
    /\ \A x \in CleanupCalls : PhaseSaved(x.st, cleanupBindings(x.st, x.lvl))
    /\ \A o \in chooseLit(s) : o.lit # NoLit => IsPositive(o.lit) = s.polarity[Var(o.lit)]
\* A backtrack is about to unbind a variable outside the objective that is
\* true and an objective variable whose objective literal is true.
C24_Witness ==
    \E x \in CleanupCalls :
        LET st2 == cleanupBindings(x.st, x.lvl)
        IN /\ \E v \in 1..s.nbVars : v \notin ObjectiveVars(s) /\ x.st.model[v] > 0 /\ st2.model[v] = 0
           /\ \E i \in 1..Len(s.minLits) :
                 /\ litStatus(x.st.model, s.minLits[i]) = "Sat"
                 /\ st2.model[Var(s.minLits[i])] = 0

\* ------------------------------------------------------- the blocking step
\* The decision levels in use, and the decisions of a level: the trail
\* literals bound at that level without a reason.
TopLevel(st) == Max({1} \cup {abs(st.model[v]) : v \in 1..st.nbVars})
DecisionsAt(st, L) ==
    {st.trail[i] : i \in {j \in 1..Len(st.trail) :
        abs(st.model[Var(st.trail[j])]) = L /\ st.reason[Var(st.trail[j])] = 0}}
\* A Sat outcome of an enumeration, about to be counted and blocked.
SatOutcome == pc = "enumLoop" /\ s.status = "Sat"
\* decisionLits gives one literal per level 2..top, the negation of the decision.
OnePerLevel(st) ==
    /\ ~DecisionFaults(st)
    /\ Len(decisionLits(st)) = TopLevel(st) - 1
    /\ \A k \in 1..(TopLevel(st) - 1) : DecisionsAt(st, k + 1) = {Negation(decisionLits(st)[k])}
\* The step taken from a Sat outcome blocks it.
Blocked ==
    LET top == TopLevel(s)
        last == CHOOSE l \in DecisionsAt(s, top) : TRUE
    IN /\ pc' # "panic"
       /\ top = 1 => s'.status = "Unsat"
       /\ top = 2 => litStatus(s'.model, Negation(last)) = "Sat" /\ abs(s'.model[Var(last)]) = 1
       /\ top >= 3 =>
            /\ Len(s'.db) = Len(s.db) + 1
            /\ s'.db[Len(s'.db)] = NewClause(decisionLits(s))
            /\ \A v \in 1..s.nbVars : abs(s'.model[v]) <= top - 1
            /\ \A v \in 1..s.nbVars : abs(s.model[v]) <= top - 1 => s'.model[v] = s.model[v]
            /\ pc' = "pas" /\ lit' = Negation(last) /\ lvl' = top - 1
            /\ s'.reason[Var(last)] = Len(s'.db)
\* C25: the blocking step of an enumeration.  At each Sat outcome decisionLits
\* gives one literal per decision level 2..top, the negation of that level's
\* decision, in the order of the levels; with none the status becomes Unsat,
\* with one it is asserted at level 1, with more a blocking clause is attached,
\* the solver undoes the highest level and holds the negation of its decision
\* with the clause as reason; every later model satisfies the blocking clauses
\* and no model is sent twice.
C25_BlockingStep ==
    /\ [](SatOutcome =>
            /\ OnePerLevel(s)
            /\ \A k \in 1..Len(s.db) : SatisfiedBy(s.db[k], ModelBools(s.model)))
    /\ [](op = "Enumerate" =>
            \A i, j \in 1..Len(models.sent) : models.sent[i] = models.sent[j] => i = j)
    /\ [][SatOutcome => Blocked]_vars

\* -------------------------------------------------- top-level simplification
\* A plain clause (cardinality 1, every weight 1) with a literal true at level 1.
PlainSatAtTop(st, c) ==
    /\ c.card = 1 /\ \A i \in 1..Len(c.weights) : c.weights[i] = 1
    /\ \E i \in 1..Len(c.lits) : st.model[Var(c.lits[i])] = lvlToSignedLvl(c.lits[i], 1)
\* propagateAndSearch has learned a unit and asserted it at level 1 without
\* conflict; the loop of Minimize / Optimal has appended a tightening constraint.
UnitLearnedStep ==
    /\ pc = "pas" /\ pc' = "pas" /\ NbConflicts' # NbConflicts
    /\ lvl' = 2 /\ Len(s'.db) = Len(s.db)
TightenedStep == pc \in {"min", "opt"} /\ loc.phase = "loop" /\ pc' \notin {"idle", "panic", "blocked"}

\* C26: top-level simplification.  After a unit is learned and after a
\* tightening constraint is appended, no plain clause with a literal true at
\* level 1 is left among the constraints.
C26_SatClausesRemoved ==
    [][(UnitLearnedStep \/ TightenedStep) =>
          \A k \in 1..Len(s'.db) : ~PlainSatAtTop(s', s'.db[k])]_vars

\* ---------------------------------------------------------- the order heap
\* C27: the order heap holds each variable at most once, hence at most N
\* entries; after rebuildOrderHeap it holds exactly the free variables; after
\* cleanupBindings each variable it unbound is in the heap exactly once.
C27_HeapHoldsEachOnce ==
    /\ \A v \in 1..s.nbVars : s.varQueue.cnt[v] <= 1
    /\ (pc = "solveLoop" /\ s.status = "Indet") =>
          \A v \in 1..s.nbVars :
              rebuildOrderHeap(s).varQueue.cnt[v] = (IF s.model[v] = 0 THEN 1 ELSE 0)
    /\ \A x \in CleanupCalls :
          \A v \in 1..s.nbVars :
              (x.st.model[v] # 0 /\ cleanupBindings(x.st, x.lvl).model[v] = 0) =>
                  cleanupBindings(x.st, x.lvl).varQueue.cnt[v] = 1

\* C28: the conversion to negation normal form preserves meaning.  Under every
\* assignment of its variables, f.nnf() has the truth value of f.
C28_NnfPreservesMeaning ==
    f # NoFormula => \A a \in [Names(f) -> BOOLEAN] : Eval(nnf(f), a) = Eval(f, a)

\* ------------------------------------------------------- the stats worker
MaxVerboseCalls == 2
\* The client sets the Verbose field of the solver, between two calls.
SetVerbose ==
    /\ pc = "idle" /\ ~worker.Verbose
    /\ worker' = [worker EXCEPT !.Verbose = TRUE]
    /\ UNCHANGED <<s, pc, op, lit, lvl, pasRet, loc, models, ret, cons, nCalls, dirty>>
    /\ UNCHANGED client

\* select { case <-ticker.C: }: a tick takes the worker to the body of its loop.
WorkerTick ==
    /\ worker.at = "select"
    /\ worker' = [worker EXCEPT !.at = "body"]
    /\ UNCHANGED <<s, pc, op, lit, lvl, pasRet, loc, models, ret, cons, nCalls, dirty>>
    /\ UNCHANGED client

\* if s.status == Indet { ... fmt.Printf(...) }: the worker reads the status
\* and the counters, without synchronisation, while the search writes them: it
\* sees the status of the moment or the Indet the call began with.  It prints
\* and goes back to the select.
WorkerBody ==
    /\ worker.at = "body"
    /\ \E seen \in {s.status, "Indet"} :
          worker' = [worker EXCEPT !.at = "select", !.printed = @ \/ seen = "Indet"]
    /\ UNCHANGED <<s, pc, op, lit, lvl, pasRet, loc, models, ret, cons, nCalls, dirty>>
    /\ UNCHANGED client

\* select { case <-end: return } on a channel that a panic of the call has
\* closed: the receive succeeds and the worker returns.
WorkerEnd ==
    /\ worker.at = "select" /\ worker.end = "closed"
    /\ worker' = [worker EXCEPT !.at = "returned"]
    /\ UNCHANGED <<s, pc, op, lit, lvl, pasRet, loc, models, ret, cons, nCalls, dirty>>
    /\ UNCHANGED client

\* end <- struct{}{}: end has no buffer, the send completes when the worker
\* receives in its select.  The worker returns; the call returns and its
\* deferred close(end) runs.
SendEnd ==
    /\ pc \in {"solveEnd", "countEnd"} /\ worker.at = "select"
    /\ IF pc = "solveEnd" THEN SolveDone(s, op, loc) ELSE Return(s, op, loc.nb, loc)
    /\ worker' = CloseEnd([worker EXCEPT !.at = "returned"])
    /\ UNCHANGED <<lit, lvl, pasRet, models, cons, nCalls, dirty>>
    /\ UNCHANGED client

\* Solve and CountModels, Verbose or not, with the worker's steps between
\* those of the call.
ProblemsVerbose == ProblemsUnsat \cup {Problem(1, {}, <<>>, <<>>, <<>>)}
SpecVerbose ==
    /\ \E p \in ProblemsVerbose : InitOf(p)
    /\ [][Core \/ SetVerbose \/ CallSolveWithin(MaxVerboseCalls)
          \/ CallEnumerateWithin(MaxVerboseCalls, "CountModels", FALSE)
          \/ EnumReturn \/ EnumSearch \/ EnumModel
          \/ SendEnd \/ WorkerTick \/ WorkerBody \/ WorkerEnd]_vars

\* A step of the worker alone.
WorkerStep == pc' = pc /\ worker.at \in {"select", "body"} /\ worker'.at # worker.at
\* A Verbose Solve or CountModels is between its first lines and its send on end.
VerboseRunning ==
    /\ worker.Verbose /\ op \in {"Solve", "CountModels"}
    /\ pc \in {"search", "pas", "solveLoop", "enumLoop", "solveEnd", "countEnd"}

\* C29: the stats worker of a Verbose Solve or CountModels writes no solver
\* state, and the call neither blocks on it nor leaves it running.  A step of
\* the worker changes nothing but the worker; while the call runs, and when it
\* sends on end, the worker is in its loop and end is open, so that the send
\* completes; when the call has returned, also at once on an Unsat status, the
\* worker has never started or has returned and end is not open; no worker is
\* started while another is in its loop.
C29_WorkerReadsAndStops ==
    /\ [][WorkerStep =>
            /\ UNCHANGED <<s, pc, op, lit, lvl, pasRet, loc, models, ret, cons, nCalls, dirty, client>>
            /\ worker'.Verbose = worker.Verbose /\ worker'.end = worker.end]_vars
    /\ [](VerboseRunning => worker.at \in {"select", "body"} /\ worker.end = "open")
    /\ [](pc = "idle" => worker.at \in {"none", "returned"} /\ worker.end # "open")
    /\ [](~worker.leaked)
\* A Verbose CountModels has returned its count: its worker has printed and
\* has returned, end is closed.
C29_Witness ==
    /\ pc = "idle" /\ ret.op = "CountModels" /\ ret.val >= 1
    /\ worker.Verbose /\ worker.at = "returned" /\ worker.printed /\ worker.end = "closed"

====
